---- MODULE Spec2Model ----
(***************************************************************************)
(* A model of the Trading 212 portfolio viewer's local time-series store   *)
(* (DataStore, src/src/main/store/dataStore.js) and alert engine           *)
(* (AlertManager, src/src/main/alerts/alerts.js), with the configuration   *)
(* path that builds the AlertManager (loadConfig / initialize in main.js), *)
(* and the refresh cycle of main.js (refreshData) that drives both.        *)
(*                                                                         *)
(* Time is the wall clock in minutes since 1970-01-01T00:00Z.  The host    *)
(* time zone is taken to have a fixed offset, so that the local-time day   *)
(* arithmetic of Date.setDate(getDate() - n) is the subtraction of n       *)
(* whole days, and every handler reads the clock once (the handlers are    *)
(* synchronous and run in well under a minute).                            *)
(*                                                                         *)
(* Prices are integers (the smallest price unit); percentages are exact    *)
(* JavaScript-number values: a rational in lowest terms, or one of the     *)
(* IEEE results of a division by zero (Infinity, -Infinity, NaN).          *)
(***************************************************************************)
EXTENDS Integers, Sequences, FiniteSets, TLC

VARIABLES
    now,                 \* the wall clock, minutes since the Unix epoch
    snapshots,           \* store 'snapshots': date key -> [positions, timestamp]
    lastPositions,       \* store 'lastPositions'
    lastFetchTime,       \* store 'lastFetchTime': <<>> (null) or <<time>>
    dailyLossThreshold,  \* AlertManager.dailyLossThreshold: null or a number
    dailyGainThreshold,  \* AlertManager.dailyGainThreshold: null or a number
    shownAlerts,         \* AlertManager.shownAlerts: set of alert keys
    notifications,       \* the desktop notifications the last operation showed
    notificationSupported, \* Notification.isSupported() on this host
    fileConfig,          \* the alerts section of config.json as loadConfig read it
    lastCash,            \* store 'lastCash': null or the cash record
    instruments,         \* store 'instruments': null or ticker -> metadata
    instrumentsCacheTime, \* store 'instrumentsCacheTime': null or a time
    instrumentsMap,      \* main.js instrumentsMap: null or ticker -> metadata
    pollingInterval,     \* main.js pollingInterval: whether the timer is set
    timers,              \* the interval timers that setInterval made and no
                         \* clearInterval has cleared: how many
    sent,                \* the message the last operation sent to the renderer
    appState,            \* the application: "starting", "running" or "quit"
    storeFile,           \* the file of the store on disk, as the next start finds it
    inFlight,            \* the refreshData invocations waiting at an await
    http,                \* the HTTP requests the Trading212Client has issued
    updater,             \* the autoUpdater and the dialogs of its event handlers
    call,                \* the last operation and its arguments
    result               \* what the last operation returned

vars == <<now, snapshots, lastPositions, lastFetchTime, dailyLossThreshold,
          dailyGainThreshold, shownAlerts, notifications, notificationSupported,
          fileConfig, lastCash, instruments, instrumentsCacheTime, instrumentsMap,
          pollingInterval, timers, sent, appState, storeFile, inFlight, http, updater,
          call, result>>

storeVars == <<snapshots, lastPositions, lastFetchTime>>
alertVars == <<dailyLossThreshold, dailyGainThreshold, shownAlerts, notifications,
               notificationSupported, fileConfig>>
cacheVars == <<lastCash, instruments, instrumentsCacheTime>>
mainVars == <<instrumentsMap, pollingInterval, timers, sent>>
procVars == <<appState, storeFile, inFlight, http, updater>>

-----------------------------------------------------------------------------
(* Bounds of the model.                                                    *)

\* The clock visits the days 0..MaxNear after the start date, and the days
\* RetentionDays..RetentionDays+MaxNear after it (where the retention sweep
\* reaches the early days).
MaxNear == 1

\* detectDowntrends is asked for windows of 1..MaxWindow days.
MaxWindow == 3

-----------------------------------------------------------------------------
(* Program constants.                                                      *)

\* saveSnapshot keeps the last 90 days.
RetentionDays == 90

\* DEFAULTS.DAILY_LOSS_ALERT_THRESHOLD and DEFAULTS.DAILY_GAIN_ALERT_THRESHOLD, which
\* are also loadConfig's and the AlertManager constructor's defaults.
DefaultLossThreshold == -5
DefaultGainThreshold == 10

MinutesPerDay == 24 * 60

\* refreshData: dataStore.detectDowntrends(5, -10)
TrendWindowDays == 5
TrendThreshold == -10

\* The JavaScript values a threshold setting can have.
JsUndefined == [k |-> "undefined", v |-> 0]
JsNull == [k |-> "null", v |-> 0]
JsNum(n) == [k |-> "number", v |-> n]

\* a ?? b
Coalesce(a, b) == IF a = JsNull \/ a = JsUndefined THEN b ELSE a

\* null / undefined and present values: <<>> and <<v>>.
Null == <<>>
Some(v) == <<v>>
IsNull(o) == o = <<>>
ValueOf(o) == o[1]

-----------------------------------------------------------------------------
(* JavaScript numbers that the percentage arithmetic produces.             *)

Abs(n) == IF n < 0 THEN -n ELSE n

RECURSIVE GCD(_, _)
GCD(a, b) == IF b = 0 THEN a ELSE GCD(b, a % b)

\* The finite number n/d (d > 0), in lowest terms.
Fin(n, d) ==
    LET g == GCD(Abs(n), d)
    IN  [k |-> "fin", n |-> n \div g, d |-> d \div g]

NaN == [k |-> "nan", n |-> 0, d |-> 0]
PosInf == [k |-> "inf", n |-> 1, d |-> 0]
NegInf == [k |-> "inf", n |-> -1, d |-> 0]
IntNum(n) == Fin(n, 1)

\* a / b for integers a and b, as JavaScript's `/` gives it.
Div(a, b) ==
    IF b = 0
    THEN IF a = 0 THEN NaN ELSE IF a > 0 THEN PosInf ELSE NegInf
    ELSE IF b > 0 THEN Fin(a, b) ELSE Fin(-a, -b)

\* x * m for a number x and an integer m > 0.
Times(x, m) == IF x.k = "fin" THEN Fin(x.n * m, x.d) ELSE x

\* x <= y and x >= y as JavaScript compares numbers (NaN compares false).
NumLeq(x, y) ==
    IF x.k = "nan" \/ y.k = "nan" THEN FALSE
    ELSE IF x.k = "inf" THEN x.n < 0 \/ (y.k = "inf" /\ y.n > 0)
    ELSE IF y.k = "inf" THEN y.n > 0
    ELSE x.n * y.d <= y.n * x.d

NumGeq(x, y) == NumLeq(y, x)

NumLess(x, y) == NumLeq(x, y) /\ x # y

-----------------------------------------------------------------------------
(* Calendar days and date keys.                                            *)

\* The civil date <<year, month, day>> of day z since 1970-01-01 (UTC), which is
\* what Date.toISOString() prints before the 'T'.
CivilFromDays(z) ==
    LET zz  == z + 719468
        era == zz \div 146097
        doe == zz - era * 146097
        yoe == (doe - doe \div 1460 + doe \div 36524 - doe \div 146096) \div 365
        doy == doe - (365 * yoe + yoe \div 4 - yoe \div 100)
        mp  == (5 * doy + 2) \div 153
        d   == doy - (153 * mp + 2) \div 5 + 1
        m   == IF mp < 10 THEN mp + 3 ELSE mp - 9
        y   == yoe + era * 400
    IN  <<IF m <= 2 THEN y + 1 ELSE y, m, d>>

\* The day number since 1970-01-01 of a civil date.
DaysFromCivil(date) ==
    LET y   == IF date[2] <= 2 THEN date[1] - 1 ELSE date[1]
        era == y \div 400
        yoe == y - era * 400
        mp  == IF date[2] > 2 THEN date[2] - 3 ELSE date[2] + 9
        doy == (153 * mp + 2) \div 5 + date[3] - 1
        doe == yoe * 365 + yoe \div 4 - yoe \div 100 + doy
    IN  era * 146097 + doe - 719468

\* _dateToKey: date.toISOString().split('T')[0], the string "YYYY-MM-DD", kept as
\* its three zero-padded fields.
DateToKey(t) == CivilFromDays(t \div MinutesPerDay)

\* _getTodayKey
GetTodayKey(t) == DateToKey(t)

\* a < b on two "YYYY-MM-DD" strings: JavaScript compares strings character by
\* character, which on fixed-width zero-padded fields is the lexicographic order
\* of the fields.
KeyLess(a, b) ==
    \/ a[1] < b[1]
    \/ a[1] = b[1] /\ a[2] < b[2]
    \/ a[1] = b[1] /\ a[2] = b[2] /\ a[3] < b[3]

\* date.setDate(date.getDate() - n) on the clock value t.
MinusDays(t, n) == t - n * MinutesPerDay

-----------------------------------------------------------------------------
(* The instants the clock visits.                                          *)

StartDate == <<2024, 12, 30>>
StartMinute == DaysFromCivil(StartDate) * MinutesPerDay

VisitedDays == (0 .. MaxNear) \cup {RetentionDays + d : d \in 0 .. MaxNear}

\* Two instants a day: midnight and noon.
DayOffsets == {0, 12 * 60}

Instants == {StartMinute + d * MinutesPerDay + o : d \in VisitedDays, o \in DayOffsets}

-----------------------------------------------------------------------------
(* Positions as the API returns them: one record per held instrument.      *)

Tickers == {"AAPL_US_EQ", "TSLA_US_EQ"}
Prices == {0, 85, 100}

Position(t, p) == [ticker |-> t, currentPrice |-> p]

TickersOf(positions) == {positions[i].ticker : i \in DOMAIN positions}

\* Every list of positions with pairwise different tickers.
PositionLists ==
    {<<>>}
    \cup {<<Position(t, p)>> : t \in Tickers, p \in Prices}
    \cup {<<Position(t1, p1), Position(t2, p2)>> :
            <<t1, t2>> \in {tt \in Tickers \X Tickers : tt[1] # tt[2]},
            <<p1, p2>> \in Prices \X Prices}

\* The lists a refresh cycle of the store machine fetches.
FetchLists ==
    { <<Position("AAPL_US_EQ", 100)>>,
      <<Position("AAPL_US_EQ", 85), Position("TSLA_US_EQ", 100)>>,
      <<Position("TSLA_US_EQ", 0)>> }

-----------------------------------------------------------------------------
(* DataStore.                                                              *)

\* saveSnapshot with the sweep's cutoff one day too early.
SavedSnapshotsLateSweep(snaps, t, positions) ==
    LET today     == GetTodayKey(t)
        withToday == [k \in DOMAIN snaps \cup {today} |->
                        IF k = today
                        THEN [positions |-> positions, timestamp |-> t]
                        ELSE snaps[k]]
        cutoffKey == DateToKey(MinusDays(t, RetentionDays + 1))
        kept      == {k \in DOMAIN withToday : ~KeyLess(k, cutoffKey)}
    IN  [k \in kept |-> withToday[k]]

\* saveSnapshot that keeps the day's first snapshot.
SavedSnapshotsFirstWins(snaps, t, positions) ==
    LET today     == GetTodayKey(t)
        withToday == [k \in DOMAIN snaps \cup {today} |->
                        IF k \in DOMAIN snaps
                        THEN snaps[k]
                        ELSE [positions |-> positions, timestamp |-> t]]
        cutoffKey == DateToKey(MinusDays(t, RetentionDays))
        kept      == {k \in DOMAIN withToday : ~KeyLess(k, cutoffKey)}
    IN  [k \in kept |-> withToday[k]]

\* saveSnapshot that also removes the snapshot of the cutoff day.
SavedSnapshotsSweepsCutoffDay(snaps, t, positions) ==
    LET today     == GetTodayKey(t)
        withToday == [k \in DOMAIN snaps \cup {today} |->
                        IF k = today
                        THEN [positions |-> positions, timestamp |-> t]
                        ELSE snaps[k]]
        cutoffKey == DateToKey(MinusDays(t, RetentionDays))
        kept      == {k \in DOMAIN withToday : KeyLess(cutoffKey, k)}
    IN  [k \in kept |-> withToday[k]]

\* saveSnapshot: the 'snapshots' object it writes back.
SavedSnapshots(snaps, t, positions) ==
    LET today     == GetTodayKey(t)
        withToday == [k \in DOMAIN snaps \cup {today} |->
                        IF k = today
                        THEN [positions |-> positions, timestamp |-> t]
                        ELSE snaps[k]]
        cutoffKey == DateToKey(MinusDays(t, RetentionDays))
        kept      == {k \in DOMAIN withToday : ~KeyLess(k, cutoffKey)}
    IN  [k \in kept |-> withToday[k]]

SaveSnapshot(positions) ==
    /\ snapshots' = SavedSnapshots(snapshots, now, positions)
    /\ lastPositions' = positions
    /\ lastFetchTime' = Some(now)
    /\ call' = [op |-> "saveSnapshot", positions |-> positions, before |-> snapshots]
    /\ result' = Null
    /\ UNCHANGED <<now, alertVars, cacheVars, mainVars, procVars>>

\* saveSnapshot in which the failedWrite-th of its three store.set calls throws:
\* the writes before it are on disk, the others never happen.
SaveSnapshotWriteFails(positions, failedWrite) ==
    /\ snapshots' = IF failedWrite > 1
                    THEN SavedSnapshots(snapshots, now, positions) ELSE snapshots
    /\ lastPositions' = IF failedWrite > 2 THEN positions ELSE lastPositions
    /\ lastFetchTime' = lastFetchTime
    /\ call' = [op |-> "saveSnapshot", positions |-> positions, before |-> snapshots,
                failedWrite |-> failedWrite]
    /\ result' = Null
    /\ UNCHANGED <<now, alertVars, cacheVars, mainVars, procVars>>

\* getYesterdaySnapshot that falls back to the most recent earlier day.
YesterdaySnapshotOrOlder(snaps, t) ==
    LET today   == DateToKey(t)
        earlier == {k \in DOMAIN snaps : KeyLess(k, today)}
    IN  IF earlier = {} THEN Null
        ELSE Some(snaps[CHOOSE k \in earlier : \A o \in earlier : ~KeyLess(k, o)])

\* getYesterdaySnapshot: snapshots[key] || null
YesterdaySnapshot(snaps, t) ==
    LET key == DateToKey(MinusDays(t, 1))
    IN  IF key \in DOMAIN snaps THEN Some(snaps[key]) ELSE Null

GetYesterdaySnapshot ==
    /\ call' = [op |-> "getYesterdaySnapshot"]
    /\ result' = YesterdaySnapshot(snapshots, now)
    /\ UNCHANGED <<now, storeVars, alertVars, cacheVars, mainVars, procVars>>

\* _extractShortTicker: fullTicker.split('_')[0]
ExtractShortTicker(fullTicker) ==
    CASE fullTicker = "AAPL_US_EQ" -> "AAPL"
      [] fullTicker = "TSLA_US_EQ" -> "TSLA"
      [] OTHER -> fullTicker

\* new Map() filled by map.set(pos.ticker, pos) over positions in order, then
\* map.get(ticker): the last position with that ticker, or undefined.
RECURSIVE MapGet(_, _)
MapGet(positions, ticker) ==
    IF positions = <<>> THEN Null
    ELSE LET last == positions[Len(positions)]
         IN  IF last.ticker = ticker THEN Some(last)
             ELSE MapGet(SubSeq(positions, 1, Len(positions) - 1), ticker)

\* The change as a percentage of the current value.
PercentChangeOfCurrent(currentValue, yesterdayValue) ==
    Times(Div(currentValue - yesterdayValue, currentValue), 100)

\* ((currentValue - yesterdayValue) / yesterdayValue) * 100
PercentChange(currentValue, yesterdayValue) ==
    Times(Div(currentValue - yesterdayValue, yesterdayValue), 100)

\* calculateDailyChanges: the callback of currentPositions.map; the record is
\* {...position, dailyChange, dailyChangePercent, hasYesterdayData, shortTicker}.
EnhancedPosition(position, yesterdayPositions) ==
    LET yesterdayPosition == MapGet(yesterdayPositions, position.ticker)
        yesterdayValue    == ValueOf(yesterdayPosition).currentPrice
        currentValue      == position.currentPrice
    IN  IF ~IsNull(yesterdayPosition)
        THEN [dailyChange |-> currentValue - yesterdayValue,
              dailyChangePercent |->
                  IF yesterdayValue > 0
                  THEN PercentChange(currentValue, yesterdayValue)
                  ELSE IntNum(0),
              hasYesterdayData |-> TRUE,
              shortTicker |-> ExtractShortTicker(position.ticker)] @@ position
        ELSE [dailyChange |-> 0,
              dailyChangePercent |-> IntNum(0),
              hasYesterdayData |-> FALSE,
              shortTicker |-> ExtractShortTicker(position.ticker)] @@ position

\* calculateDailyChanges that returns only the positions held yesterday too.
DailyChangesMatchedOnly(snaps, t, currentPositions) ==
    LET yesterday == YesterdaySnapshot(snaps, t)
        yesterdayPositions ==
            IF IsNull(yesterday) THEN <<>> ELSE ValueOf(yesterday).positions
        all == [i \in DOMAIN currentPositions |->
                  EnhancedPosition(currentPositions[i], yesterdayPositions)]
        matched(p) == p.hasYesterdayData
    IN  SelectSeq(all, matched)

\* calculateDailyChanges
DailyChanges(snaps, t, currentPositions) ==
    LET yesterday == YesterdaySnapshot(snaps, t)
        yesterdayPositions ==
            IF IsNull(yesterday) THEN <<>> ELSE ValueOf(yesterday).positions
    IN  [i \in DOMAIN currentPositions |->
            EnhancedPosition(currentPositions[i], yesterdayPositions)]

CalculateDailyChanges(currentPositions) ==
    /\ call' = [op |-> "calculateDailyChanges", positions |-> currentPositions]
    /\ result' = DailyChanges(snapshots, now, currentPositions)
    /\ UNCHANGED <<now, storeVars, alertVars, cacheVars, mainVars, procVars>>

\* Object.keys(snapshots).sort(): the keys in ascending string order.
RECURSIVE SortedKeys(_)
SortedKeys(keys) ==
    IF keys = {} THEN <<>>
    ELSE LET least == CHOOSE k \in keys : \A other \in keys \ {k} : KeyLess(k, other)
         IN  <<least>> \o SortedKeys(keys \ {least})

\* Array.prototype.slice(start) with one argument.
Slice(seq, start) ==
    LET n    == Len(seq)
        from == IF start < 0
                THEN (IF n + start < 0 THEN 0 ELSE n + start)
                ELSE (IF start > n THEN n ELSE start)
    IN  SubSeq(seq, from + 1, n)

\* The comparator of downtrends.sort: a.changePercent - b.changePercent < 0.
WorseThan(a, b) == NumLess(a.changePercent, b.changePercent)

\* Array.prototype.sort with that comparator (a stable sort): each element goes
\* behind the elements that are not after it.
RECURSIVE InsertSorted(_, _)
InsertSorted(sorted, x) ==
    IF sorted = <<>> THEN <<x>>
    ELSE IF WorseThan(x, sorted[Len(sorted)])
         THEN InsertSorted(SubSeq(sorted, 1, Len(sorted) - 1), x)
                  \o <<sorted[Len(sorted)]>>
         ELSE sorted \o <<x>>

RECURSIVE SortTrends(_)
SortTrends(trends) ==
    IF trends = <<>> THEN <<>>
    ELSE InsertSorted(SortTrends(SubSeq(trends, 1, Len(trends) - 1)),
                      trends[Len(trends)])

\* detectDowntrends: the loop over lastSnapshot.positions, pushing the tickers that
\* fell by the threshold or more since the first snapshot.
RECURSIVE TrendsOf(_, _, _, _)
TrendsOf(lastPositions_, firstPositions, threshold, nDays) ==
    IF lastPositions_ = <<>> THEN <<>>
    ELSE LET currentPos    == lastPositions_[Len(lastPositions_)]
             before        == TrendsOf(SubSeq(lastPositions_, 1, Len(lastPositions_) - 1),
                                       firstPositions, threshold, nDays)
             startPos      == MapGet(firstPositions, currentPos.ticker)
             startPrice    == ValueOf(startPos).currentPrice
             endPrice      == currentPos.currentPrice
             changePercent == PercentChange(endPrice, startPrice)
         IN  IF ~IsNull(startPos) /\ NumLeq(changePercent, IntNum(threshold))
             THEN before \o <<[ticker |-> currentPos.ticker,
                               shortTicker |-> ExtractShortTicker(currentPos.ticker),
                               startPrice |-> startPrice,
                               endPrice |-> endPrice,
                               changePercent |-> changePercent,
                               days |-> nDays]>>
             ELSE before

\* The snapshot of the day before the window's last day.
FirstSnapshotDayBefore(snaps, snapshotDates) == snaps[snapshotDates[Len(snapshotDates) - 1]]

\* detectDowntrends: the first and the last snapshot it compares
FirstSnapshot(snaps, snapshotDates) == snaps[snapshotDates[1]]
LastSnapshot(snaps, snapshotDates) == snaps[snapshotDates[Len(snapshotDates)]]

\* detectDowntrends that asks for one snapshot day only.
DowntrendsOneDayEnough(snaps, days, threshold) ==
    LET snapshotDates == Slice(SortedKeys(DOMAIN snaps), -days)
    IN  IF Len(snapshotDates) < 1 THEN <<>>
        ELSE SortTrends(TrendsOf(LastSnapshot(snaps, snapshotDates).positions,
                                 FirstSnapshot(snaps, snapshotDates).positions,
                                 threshold, Len(snapshotDates)))

\* detectDowntrends
Downtrends(snaps, days, threshold) ==
    LET snapshotDates == Slice(SortedKeys(DOMAIN snaps), -days)
    IN  IF Len(snapshotDates) < 2 THEN <<>>
        ELSE SortTrends(TrendsOf(LastSnapshot(snaps, snapshotDates).positions,
                                 FirstSnapshot(snaps, snapshotDates).positions,
                                 threshold, Len(snapshotDates)))

DetectDowntrends(days, threshold) ==
    /\ call' = [op |-> "detectDowntrends", days |-> days, threshold |-> threshold]
    /\ result' = Downtrends(snapshots, days, threshold)
    /\ UNCHANGED <<now, storeVars, alertVars, cacheVars, mainVars, procVars>>

-----------------------------------------------------------------------------
(* Configuration and the AlertManager.                                     *)

\* The alerts section of config.json: each threshold a number, null, or not given.
NoFileConfig == [dailyLossThreshold |-> JsUndefined, dailyGainThreshold |-> JsUndefined]

FileConfigs ==
    [dailyLossThreshold : {JsUndefined, JsNull, JsNum(DefaultLossThreshold)},
     dailyGainThreshold : {JsUndefined, JsNull, JsNum(DefaultGainThreshold)}]

\* loadConfig: config.alerts after the merge of the file's settings.
LoadConfig(fc) ==
    [dailyLossThreshold |->
        IF fc.dailyLossThreshold # JsUndefined
        THEN fc.dailyLossThreshold ELSE JsNum(DefaultLossThreshold),
     dailyGainThreshold |->
        IF fc.dailyGainThreshold # JsUndefined
        THEN fc.dailyGainThreshold ELSE JsNum(DefaultGainThreshold)]

\* initialize: the argument of new AlertManager(...)
AlertManagerConfig(config) ==
    [dailyLossThreshold |-> Coalesce(config.dailyLossThreshold, JsNum(DefaultLossThreshold)),
     dailyGainThreshold |-> Coalesce(config.dailyGainThreshold, JsNum(DefaultGainThreshold))]

\* AlertManager.constructor: the two thresholds
ConstructedThresholds(config) ==
    [dailyLossThreshold |-> Coalesce(config.dailyLossThreshold, JsNum(DefaultLossThreshold)),
     dailyGainThreshold |-> Coalesce(config.dailyGainThreshold, JsNum(DefaultGainThreshold))]

\* The AlertManager as initialize builds it from the configuration file.
InitAlertManager(fc) ==
    LET built == ConstructedThresholds(AlertManagerConfig(LoadConfig(fc)))
    IN  /\ fileConfig = fc
        /\ dailyLossThreshold = built.dailyLossThreshold
        /\ dailyGainThreshold = built.dailyGainThreshold
        /\ shownAlerts = {}
        /\ notifications = <<>>

\* updateThresholds
UpdateThresholds(config) ==
    /\ dailyLossThreshold' =
          IF config.dailyLossThreshold # JsUndefined
          THEN config.dailyLossThreshold ELSE dailyLossThreshold
    /\ dailyGainThreshold' =
          IF config.dailyGainThreshold # JsUndefined
          THEN config.dailyGainThreshold ELSE dailyGainThreshold
    /\ call' = [op |-> "updateThresholds", config |-> config]
    /\ result' = Null
    /\ notifications' = <<>>
    /\ UNCHANGED <<now, storeVars, shownAlerts, notificationSupported, fileConfig,
                   cacheVars, mainVars, procVars>>

\* An alert key without the day.
AlertKeyNoDay(ticker, kind, today) == <<ticker, kind, <<0, 0, 0>>>>

\* `${ticker}:loss:${today}`, kept as its three fields.
AlertKey(ticker, kind, today) == <<ticker, kind, today>>

\* The loss check without the null test: null compares as 0.
LossBreachedNullAsZero(dailyChangePercent, threshold) ==
    NumLeq(dailyChangePercent, IntNum(threshold.v))

\* this.dailyLossThreshold !== null && dailyChangePercent <= this.dailyLossThreshold
LossBreached(dailyChangePercent, threshold) ==
    threshold # JsNull /\ NumLeq(dailyChangePercent, IntNum(threshold.v))

\* this.dailyGainThreshold !== null && dailyChangePercent >= this.dailyGainThreshold
GainBreached(dailyChangePercent, threshold) ==
    threshold # JsNull /\ NumGeq(dailyChangePercent, IntNum(threshold.v))

\* _showNotification without the Notification.isSupported() test.
ShowNotificationUnguarded(shown, title, body) ==
    shown \o <<[title |-> title, body |-> body]>>

\* _showNotification: the notifications shown, with one more if the host supports them.
ShowNotification(shown, title, body) ==
    IF notificationSupported THEN shown \o <<[title |-> title, body |-> body]>> ELSE shown

\* Math.abs(x) of a number.
NumAbs(x) == IF x.k = "fin" THEN Fin(Abs(x.n), x.d) ELSE IF x.k = "inf" THEN PosInf ELSE x

\* checkAlerts that alerts of a breach whether or not its key was shown.
CheckOneNoDedup(acc, position, kind, type, threshold, breached, today, t) ==
    LET alertKey == AlertKey(position.ticker, kind, today)
    IN  IF breached
        THEN [shown  |-> acc.shown \cup {alertKey},
              alerts |-> acc.alerts \o
                         <<[type |-> type,
                            ticker |-> position.ticker,
                            shortTicker |-> position.shortTicker,
                            changePercent |-> position.dailyChangePercent,
                            currentPrice |-> position.currentPrice,
                            threshold |-> threshold.v,
                            timestamp |-> t]>>,
              notes  |-> ShowNotification(acc.notes,
                            <<type, position.shortTicker>>,
                            <<position.shortTicker, NumAbs(position.dailyChangePercent)>>)]
        ELSE acc

\* checkAlerts: one kind's check of one position.  acc is [shown, alerts, notes]:
\* shownAlerts, triggeredAlerts and the notifications so far.
CheckOne(acc, position, kind, type, threshold, breached, today, t) ==
    LET alertKey == AlertKey(position.ticker, kind, today)
    IN  IF breached /\ alertKey \notin acc.shown
        THEN [shown  |-> acc.shown \cup {alertKey},
              alerts |-> acc.alerts \o
                         <<[type |-> type,
                            ticker |-> position.ticker,
                            shortTicker |-> position.shortTicker,
                            changePercent |-> position.dailyChangePercent,
                            currentPrice |-> position.currentPrice,
                            threshold |-> threshold.v,
                            timestamp |-> t]>>,
              notes  |-> ShowNotification(acc.notes,
                            <<type, position.shortTicker>>,
                            <<position.shortTicker, NumAbs(position.dailyChangePercent)>>)]
        ELSE acc

\* checkAlerts: the loop over positionsWithChanges.
RECURSIVE CheckedAlerts(_, _, _, _, _, _)
CheckedAlerts(shown, positionsWithChanges, lossThreshold, gainThreshold, today, t) ==
    IF positionsWithChanges = <<>>
    THEN [shown |-> shown, alerts |-> <<>>, notes |-> <<>>]
    ELSE LET n        == Len(positionsWithChanges)
             position == positionsWithChanges[n]
             before   == CheckedAlerts(shown, SubSeq(positionsWithChanges, 1, n - 1),
                                       lossThreshold, gainThreshold, today, t)
             afterLoss == CheckOne(before, position, "loss", "daily_loss", lossThreshold,
                                   LossBreached(position.dailyChangePercent, lossThreshold),
                                   today, t)
         IN  IF ~position.hasYesterdayData THEN before
             ELSE CheckOne(afterLoss, position, "gain", "daily_gain", gainThreshold,
                           GainBreached(position.dailyChangePercent, gainThreshold),
                           today, t)

\* checkAlerts in which the sink throws at the failAt-th notification
\* (new Notification(...) or notification.show() inside _showNotification, which
\* has no try/catch): the state of the loop at the throw.  The key of that event
\* has been added and the event pushed to the local triggeredAlerts, which is
\* never returned; the positions after it are not reached.
ThrownAlerts(shown, positionsWithChanges, lossThreshold, gainThreshold, today, t, failAt) ==
    LET upTo(k) == CheckedAlerts(shown, SubSeq(positionsWithChanges, 1, k),
                                 lossThreshold, gainThreshold, today, t)
        k == CHOOSE i \in DOMAIN positionsWithChanges :
                 /\ Len(upTo(i).alerts) >= failAt
                 /\ Len(upTo(i - 1).alerts) < failAt
        position  == positionsWithChanges[k]
        afterLoss == CheckOne(upTo(k - 1), position, "loss", "daily_loss", lossThreshold,
                              LossBreached(position.dailyChangePercent, lossThreshold),
                              today, t)
        atThrow   == IF Len(afterLoss.alerts) >= failAt THEN afterLoss ELSE upTo(k)
    IN  [shown |-> atThrow.shown,
         lost  |-> atThrow.alerts,
         notes |-> SubSeq(atThrow.notes, 1, failAt - 1)]

CheckAlertsSinkThrows(positionsWithChanges, failAt) ==
    LET today == DateToKey(now)
        whole == CheckedAlerts(shownAlerts, positionsWithChanges, dailyLossThreshold,
                               dailyGainThreshold, today, now)
        done  == ThrownAlerts(shownAlerts, positionsWithChanges, dailyLossThreshold,
                              dailyGainThreshold, today, now, failAt)
    IN  /\ notificationSupported
        /\ Len(whole.alerts) >= failAt
        /\ shownAlerts' = done.shown
        /\ notifications' = done.notes
        /\ call' = [op |-> "checkAlerts", positions |-> positionsWithChanges,
                    sinkFailedAt |-> failAt]
        /\ result' = <<>>
        /\ UNCHANGED <<now, storeVars, dailyLossThreshold, dailyGainThreshold,
                       notificationSupported, fileConfig, cacheVars, mainVars, procVars>>

\* checkAlerts
CheckAlerts(positionsWithChanges) ==
    \E done \in {CheckedAlerts(shownAlerts, positionsWithChanges, dailyLossThreshold,
                               dailyGainThreshold, DateToKey(now), now)} :
        /\ shownAlerts' = done.shown
        /\ notifications' = done.notes
        /\ call' = [op |-> "checkAlerts", positions |-> positionsWithChanges]
        /\ result' = done.alerts
        /\ UNCHANGED <<now, storeVars, dailyLossThreshold, dailyGainThreshold,
                       notificationSupported, fileConfig, cacheVars, mainVars, procVars>>

\* The trend check that keeps only today's keys when it marks one.
CheckTrendOneForgetsOldDays(acc, trend, today, t) ==
    LET alertKey == AlertKey(trend.ticker, "downtrend", today)
    IN  IF alertKey \notin acc.shown
        THEN [shown  |-> {key \in acc.shown : key[3] = today} \cup {alertKey},
              alerts |-> acc.alerts \o
                         <<[type |-> "downtrend",
                            ticker |-> trend.ticker,
                            shortTicker |-> trend.shortTicker,
                            changePercent |-> trend.changePercent,
                            days |-> trend.days,
                            timestamp |-> t]>>,
              notes  |-> ShowNotification(acc.notes,
                            <<"downtrend", trend.shortTicker>>,
                            <<NumAbs(trend.changePercent), trend.days>>)]
        ELSE acc

\* The trend check that does not look the key up.
CheckTrendOneNoDedup(acc, trend, today, t) ==
    LET alertKey == AlertKey(trend.ticker, "downtrend", today)
    IN  [shown  |-> acc.shown \cup {alertKey},
         alerts |-> acc.alerts \o
                    <<[type |-> "downtrend",
                       ticker |-> trend.ticker,
                       shortTicker |-> trend.shortTicker,
                       changePercent |-> trend.changePercent,
                       days |-> trend.days,
                       timestamp |-> t]>>,
         notes  |-> ShowNotification(acc.notes,
                       <<"downtrend", trend.shortTicker>>,
                       <<NumAbs(trend.changePercent), trend.days>>)]

\* checkDowntrendAlerts: the check of one trend.  acc is [shown, alerts, notes].
CheckTrendOne(acc, trend, today, t) ==
    LET alertKey == AlertKey(trend.ticker, "downtrend", today)
    IN  IF alertKey \notin acc.shown
        THEN [shown  |-> acc.shown \cup {alertKey},
              alerts |-> acc.alerts \o
                         <<[type |-> "downtrend",
                            ticker |-> trend.ticker,
                            shortTicker |-> trend.shortTicker,
                            changePercent |-> trend.changePercent,
                            days |-> trend.days,
                            timestamp |-> t]>>,
              notes  |-> ShowNotification(acc.notes,
                            <<"downtrend", trend.shortTicker>>,
                            <<NumAbs(trend.changePercent), trend.days>>)]
        ELSE acc

\* checkDowntrendAlerts: the loop over downtrends.
RECURSIVE CheckedTrendAlerts(_, _, _, _)
CheckedTrendAlerts(shown, downtrends, today, t) ==
    IF downtrends = <<>>
    THEN [shown |-> shown, alerts |-> <<>>, notes |-> <<>>]
    ELSE LET n == Len(downtrends)
         IN  CheckTrendOne(CheckedTrendAlerts(shown, SubSeq(downtrends, 1, n - 1), today, t),
                           downtrends[n], today, t)

\* checkDowntrendAlerts
CheckDowntrendAlerts(downtrends) ==
    LET today == DateToKey(now)
        done  == CheckedTrendAlerts(shownAlerts, downtrends, today, now)
    IN  /\ shownAlerts' = done.shown
        /\ notifications' = done.notes
        /\ call' = [op |-> "checkDowntrendAlerts", trends |-> downtrends]
        /\ result' = done.alerts
        /\ UNCHANGED <<now, storeVars, dailyLossThreshold, dailyGainThreshold,
                       notificationSupported, fileConfig, cacheVars, mainVars, procVars>>

\* `${ticker}:${kind}:${day}`.includes(today): the key's date is today (no ticker
\* and no kind contains a date).
KeyIncludes(key, today) == key[3] = today

\* clearTodayAlerts that deletes the keys of every day.
ClearedTodayAllDays(shown, today) == {}

\* clearTodayAlerts: the keys left after deleting those that contain today's date.
ClearedToday(shown, today) == {key \in shown : ~KeyIncludes(key, today)}

\* clearTodayAlerts
ClearTodayAlerts ==
    /\ shownAlerts' = ClearedToday(shownAlerts, DateToKey(now))
    /\ call' = [op |-> "clearTodayAlerts", before |-> shownAlerts]
    /\ result' = Null
    /\ notifications' = <<>>
    /\ UNCHANGED <<now, storeVars, dailyLossThreshold, dailyGainThreshold,
                   notificationSupported, fileConfig, cacheVars, mainVars, procVars>>

\* clearAllAlerts
ClearAllAlerts ==
    /\ shownAlerts' = {}
    /\ call' = [op |-> "clearAllAlerts", before |-> shownAlerts]
    /\ result' = Null
    /\ notifications' = <<>>
    /\ UNCHANGED <<now, storeVars, dailyLossThreshold, dailyGainThreshold,
                   notificationSupported, fileConfig, cacheVars, mainVars, procVars>>

-----------------------------------------------------------------------------
(* The instruments cache of the DataStore.                                 *)

\* isInstrumentsCacheValid: the cache is valid for 24 hours.
CacheValidHours == 24

\* isInstrumentsCacheValid that takes a cache of exactly 24 hours for valid.
IsInstrumentsCacheValidInclusive(cacheTime, t) ==
    /\ ~IsNull(cacheTime)
    /\ t - ValueOf(cacheTime) <= CacheValidHours * 60

\* isInstrumentsCacheValid: cacheTime is set and hoursSinceCache < 24
IsInstrumentsCacheValid(cacheTime, t) ==
    /\ ~IsNull(cacheTime)
    /\ t - ValueOf(cacheTime) < CacheValidHours * 60

\* getCachedInstruments: null, or the stored object as a Map.
GetCachedInstruments(instrumentsObj) == instrumentsObj

-----------------------------------------------------------------------------
(* The refresh cycle of main.js.                                           *)

\* What the API answers: the cash balance and the instruments list.  The list has
\* no entry for TSLA_US_EQ.
Cash == [free |-> 50, total |-> 1050, invested |-> 1000, ppl |-> 50]

InstrumentsList ==
    <<[ticker |-> "AAPL_US_EQ", name |-> "Apple Inc", currencyCode |-> "USD",
       isin |-> "US0378331005"]>>

\* config.account.totalDeposits: loadConfig's default.
ConfigTotalDeposits == JsNull

\* refreshData: the cash record after the totalDeposits override.
AdjustedCash(cash, totalDeposits) ==
    IF totalDeposits.k = "number" /\ totalDeposits.v # 0
    THEN [cash EXCEPT !.invested = totalDeposits.v - cash.free,
                      !.ppl = cash.total - totalDeposits.v]
    ELSE cash

\* refreshData: instrumentsMap built from the instruments list by
\* instrumentsMap.set(inst.ticker, {name, currencyCode, isin}).
InstrumentsMapOf(list) ==
    [ticker \in {list[i].ticker : i \in DOMAIN list} |->
        LET inst == ValueOf(MapGet(list, ticker))
        IN  [name |-> inst.name, currencyCode |-> inst.currencyCode, isin |-> inst.isin]]

\* new Map()
EmptyMap == <<>>

\* refreshData: the instruments step.  st holds the state the cycle started in;
\* fetched is what getInstruments answers if asked (null: the request fails).
LoadedInstruments(st, t, fetched) ==
    LET fromDisk == IF IsInstrumentsCacheValid(st.instrumentsCacheTime, t)
                    THEN GetCachedInstruments(st.instruments) ELSE Null
        unchanged(map, requests) ==
            [instrumentsMap |-> map, instruments |-> st.instruments,
             instrumentsCacheTime |-> st.instrumentsCacheTime, requests |-> requests]
    IN  IF ~IsNull(st.instrumentsMap) THEN unchanged(st.instrumentsMap, <<>>)
        ELSE IF ~IsNull(fromDisk) THEN unchanged(fromDisk, <<>>)
        ELSE IF ~IsNull(fetched)
             THEN [instrumentsMap |-> Some(InstrumentsMapOf(ValueOf(fetched))),
                   instruments |-> Some(InstrumentsMapOf(ValueOf(fetched))),
                   instrumentsCacheTime |-> Some(t),
                   requests |-> <<"instruments">>]
             ELSE unchanged(Some(EmptyMap), <<"instruments">>)

\* refreshData: {...pos, companyName: meta?.name || null,
\*               instrumentCurrency: meta?.currencyCode || null}
WithNames(pos, map) ==
    LET known == pos.ticker \in DOMAIN map
    IN  [companyName |-> IF known THEN Some(map[pos.ticker].name) ELSE Null,
         instrumentCurrency |->
             IF known THEN Some(map[pos.ticker].currencyCode) ELSE Null] @@ pos

\* The state a refresh cycle reads and writes, as one record.
CycleState ==
    [snapshots |-> snapshots, lastPositions |-> lastPositions,
     lastFetchTime |-> lastFetchTime, lastCash |-> lastCash,
     instruments |-> instruments, instrumentsCacheTime |-> instrumentsCacheTime,
     instrumentsMap |-> instrumentsMap, shownAlerts |-> shownAlerts,
     dailyLossThreshold |-> dailyLossThreshold,
     dailyGainThreshold |-> dailyGainThreshold]

\* refreshData: the catch block.  Nothing more is written; an ERROR message goes to
\* the renderer.  st is the state at the throw.
Aborted(st, t, requests) ==
    [st |-> st,
     sent |-> [channel |-> "error", timestamp |-> t],
     notes |-> <<>>,
     requests |-> requests,
     steps |-> requests \o <<"sendError">>]

\* refreshData that saves the snapshot before it calculates the daily changes and
\* detects the downtrends before it checks the alerts.
CycleStepsPersistFirst(requests) ==
    requests \o <<"saveSnapshot", "calculateDailyChanges", "detectDowntrends",
                  "checkAlerts", "checkDowntrendAlerts", "sendPositionsUpdate">>

\* refreshData: the calls of a cycle that completes, in the order of its
\* statements, after the requests it made.
CycleSteps(requests) ==
    requests \o <<"calculateDailyChanges", "saveSnapshot", "checkAlerts",
                  "detectDowntrends", "checkDowntrendAlerts", "sendPositionsUpdate">>

\* refreshData from the instruments step on, with the instruments as loaded.
CompletedWith(st, t, positions, cash, loaded) ==
    LET today  == DateToKey(t)
        positionsWithNames ==
            [i \in DOMAIN positions |->
                WithNames(positions[i], ValueOf(loaded.instrumentsMap))]
        positionsWithChanges == DailyChanges(st.snapshots, t, positionsWithNames)
        saved  == SavedSnapshots(st.snapshots, t, positions)
        daily  == CheckedAlerts(st.shownAlerts, positionsWithChanges,
                                st.dailyLossThreshold, st.dailyGainThreshold, today, t)
        downtrends == Downtrends(saved, TrendWindowDays, TrendThreshold)
        trend  == CheckedTrendAlerts(daily.shown, downtrends, today, t)
    IN  [st |-> [st EXCEPT !.snapshots = saved,
                           !.lastPositions = positions,
                           !.lastFetchTime = Some(t),
                           !.lastCash = Some(cash),
                           !.instruments = loaded.instruments,
                           !.instrumentsCacheTime = loaded.instrumentsCacheTime,
                           !.instrumentsMap = loaded.instrumentsMap,
                           !.shownAlerts = trend.shown],
         sent |-> [channel |-> "positions-update",
                   positions |-> positionsWithChanges,
                   cash |-> cash,
                   alerts |-> daily.alerts,
                   downtrends |-> downtrends,
                   lastUpdate |-> t,
                   fromCache |-> FALSE],
         notes |-> daily.notes \o trend.notes,
         requests |-> <<"positions", "cash">> \o loaded.requests,
         steps |-> CycleSteps(<<"positions", "cash">> \o loaded.requests)]

\* refreshData in which a failed getInstruments leaves the try block.
CompletedUnlessMetadataFails(st, t, positions, cash, fetchedInstruments) ==
    LET adjusted == AdjustedCash(cash, ConfigTotalDeposits)
        loaded   == LoadedInstruments(st, t, fetchedInstruments)
    IN  IF loaded.requests # <<>> /\ IsNull(fetchedInstruments)
        THEN Aborted([st EXCEPT !.lastCash = Some(adjusted)], t,
                     <<"positions", "cash", "instruments">>)
        ELSE CompletedWith(st, t, positions, adjusted, loaded)

\* refreshData after positions and cash have arrived.
Completed(st, t, positions, cash, fetchedInstruments) ==
    LET adjusted == AdjustedCash(cash, ConfigTotalDeposits)
    IN  CompletedWith(st, t, positions, adjusted,
                      LoadedInstruments(st, t, fetchedInstruments))

\* refreshData that saves the snapshot as soon as the positions have arrived.
RefreshedSavesOnArrival(st, t, fetched) ==
    IF IsNull(fetched.positions) THEN Aborted(st, t, <<"positions">>)
    ELSE IF IsNull(fetched.cash)
         THEN Aborted([st EXCEPT !.snapshots =
                                    SavedSnapshots(st.snapshots, t,
                                                   ValueOf(fetched.positions)),
                                 !.lastPositions = ValueOf(fetched.positions),
                                 !.lastFetchTime = Some(t)],
                      t, <<"positions", "cash">>)
         ELSE Completed(st, t, ValueOf(fetched.positions), ValueOf(fetched.cash),
                        fetched.instruments)

\* refreshData: the whole cycle.  fetched holds what the three API requests
\* answer if they are made; null is a request that fails.
Refreshed(st, t, fetched) ==
    IF IsNull(fetched.positions) THEN Aborted(st, t, <<"positions">>)
    ELSE IF IsNull(fetched.cash) THEN Aborted(st, t, <<"positions", "cash">>)
         ELSE Completed(st, t, ValueOf(fetched.positions), ValueOf(fetched.cash),
                        fetched.instruments)

\* The answers of the API in one cycle.  The answer of a request that is not made
\* after an earlier one failed is left null.
FetchOutcomes ==
    {[positions |-> Null, cash |-> Null, instruments |-> Null]}
    \cup {[positions |-> Some(l), cash |-> Null, instruments |-> Null] : l \in FetchLists}
    \cup {[positions |-> Some(l), cash |-> Some(Cash), instruments |-> i] :
            l \in FetchLists, i \in {Null, Some(InstrumentsList)}}

\* The keys the process that ended had in shownAlerts, for the first call that
\* follows a relaunch (a record of the past for the properties).
ForgottenAlerts == IF call.op = "relaunch" THEN call.before ELSE {}

RefreshData(fetched) ==
    \E done \in {Refreshed(CycleState, now, fetched)} :
        /\ snapshots' = done.st.snapshots
        /\ lastPositions' = done.st.lastPositions
        /\ lastFetchTime' = done.st.lastFetchTime
        /\ lastCash' = done.st.lastCash
        /\ instruments' = done.st.instruments
        /\ instrumentsCacheTime' = done.st.instrumentsCacheTime
        /\ instrumentsMap' = done.st.instrumentsMap
        /\ shownAlerts' = done.st.shownAlerts
        /\ notifications' = done.notes
        /\ sent' = Some(done.sent)
        /\ call' = [op |-> "refreshData", fetched |-> fetched, requests |-> done.requests,
                    steps |-> done.steps, forgotten |-> ForgottenAlerts]
        /\ result' = Null
        /\ UNCHANGED <<now, dailyLossThreshold, dailyGainThreshold, notificationSupported,
                       fileConfig, pollingInterval, timers, procVars>>

\* The callback of setInterval(refreshData, intervalMs), while the timer is set.
TimerRefresh(fetched) ==
    /\ timers > 0
    /\ RefreshData(fetched)

-----------------------------------------------------------------------------
(* The instruments cache and the freshness of the store, as calls.         *)

\* Answers of the instruments endpoint other than InstrumentsList: another
\* ticker, and both tickers with another name for the first.
TslaInstrument ==
    [ticker |-> "TSLA_US_EQ", name |-> "Tesla Inc", currencyCode |-> "USD",
     isin |-> "US88160R1014"]

InstrumentsLists ==
    {InstrumentsList,
     <<TslaInstrument>>,
     <<[InstrumentsList[1] EXCEPT !.name = "Apple"], TslaInstrument>>}

\* saveInstruments: instrumentsObj is built from the Map alone and written under
\* 'instruments'; then 'instrumentsCacheTime' is written.
SavedInstruments(map, t) ==
    [instruments |-> Some(map), instrumentsCacheTime |-> Some(t)]

SaveInstruments(map) ==
    \E saved \in {SavedInstruments(map, now)} :
        /\ instruments' = saved.instruments
        /\ instrumentsCacheTime' = saved.instrumentsCacheTime
        /\ call' = [op |-> "saveInstruments", map |-> map,
                    before |-> [instruments |-> instruments,
                                instrumentsCacheTime |-> instrumentsCacheTime]]
        /\ result' = Null
        /\ UNCHANGED <<now, storeVars, alertVars, lastCash, mainVars, procVars>>

\* saveInstruments in which the store.set numbered failedWrite throws: the writes
\* before it are on disk, the others are not made.
SaveInstrumentsWriteFails(map, failedWrite) ==
    \E saved \in {SavedInstruments(map, now)} :
        /\ instruments' = IF failedWrite > 1 THEN saved.instruments ELSE instruments
        /\ instrumentsCacheTime' = instrumentsCacheTime
        /\ call' = [op |-> "saveInstruments", map |-> map,
                    before |-> [instruments |-> instruments,
                                instrumentsCacheTime |-> instrumentsCacheTime],
                    failedWrite |-> failedWrite]
        /\ result' = Null
        /\ UNCHANGED <<now, storeVars, alertVars, lastCash, mainVars, procVars>>

\* isInstrumentsCacheValid, called now.
IsInstrumentsCacheValidNow ==
    /\ call' = [op |-> "isInstrumentsCacheValid"]
    /\ result' = IsInstrumentsCacheValid(instrumentsCacheTime, now)
    /\ UNCHANGED <<now, storeVars, alertVars, cacheVars, mainVars, procVars>>

\* hasFreshData(maxAgeMinutes = 30)
DefaultMaxAgeMinutes == 30

\* hasFreshData that takes data of exactly maxAgeMinutes for fresh.
FreshDataInclusive(lastFetch, t, maxAgeMinutes) ==
    /\ ~IsNull(lastFetch)
    /\ t - ValueOf(lastFetch) <=
          (IF maxAgeMinutes = JsUndefined THEN DefaultMaxAgeMinutes ELSE maxAgeMinutes.v)

\* hasFreshData: lastFetchTime is set and ageMinutes < maxAgeMinutes.  The default
\* of the parameter stands in for undefined only.
FreshData(lastFetch, t, maxAgeMinutes) ==
    /\ ~IsNull(lastFetch)
    /\ t - ValueOf(lastFetch) <
          (IF maxAgeMinutes = JsUndefined THEN DefaultMaxAgeMinutes ELSE maxAgeMinutes.v)

HasFreshData(maxAgeMinutes) ==
    /\ call' = [op |-> "hasFreshData", maxAgeMinutes |-> maxAgeMinutes]
    /\ result' = FreshData(lastFetchTime, now, maxAgeMinutes)
    /\ UNCHANGED <<now, storeVars, alertVars, cacheVars, mainVars, procVars>>

-----------------------------------------------------------------------------
(* The store on disk.  electron-store keeps the store object as one JSON   *)
(* text and reads it back.                                                 *)

\* JSON.stringify of a number that is a non-negative integer: its decimal digits.
RECURSIVE Digits(_)
Digits(n) == IF n < 10 THEN <<n>> ELSE Append(Digits(n \div 10), n % 10)

\* JSON.parse that reads the digits of a number from the right.
RECURSIVE NumberOfLittleEndian(_)
NumberOfLittleEndian(digits) ==
    IF digits = <<>> THEN 0
    ELSE NumberOfLittleEndian(Tail(digits)) * 10 + Head(digits)

\* JSON.parse of the digits of a number.
RECURSIVE NumberOf(_)
NumberOf(digits) ==
    IF digits = <<>> THEN 0
    ELSE NumberOf(SubSeq(digits, 1, Len(digits) - 1)) * 10 + digits[Len(digits)]

\* The orders in which an object may hold the given keys.
KeyOrders(keys) ==
    {order \in [1 .. Cardinality(keys) -> keys] :
        \A i, j \in DOMAIN order : i # j => order[i] # order[j]}

\* store.set('snapshots', snapshots): the members of the object in its key order,
\* each snapshot with its positions in array order and every number as text.
Stringified(snaps, order) ==
    [i \in DOMAIN order |->
        [name |-> order[i],
         positions |->
            [j \in DOMAIN snaps[order[i]].positions |->
                [ticker |-> snaps[order[i]].positions[j].ticker,
                 currentPrice |-> Digits(snaps[order[i]].positions[j].currentPrice)]],
         timestamp |-> snaps[order[i]].timestamp]]

\* store.get('snapshots') in a new process: the object read from the text; of
\* two members of one name the later one stays.
Parsed(text) ==
    [name \in {text[i].name : i \in DOMAIN text} |->
        LET member == text[CHOOSE i \in DOMAIN text :
                              /\ text[i].name = name
                              /\ \A j \in DOMAIN text : j > i => text[j].name # name]
        IN  [positions |->
                [j \in DOMAIN member.positions |->
                    Position(member.positions[j].ticker,
                             NumberOf(member.positions[j].currentPrice))],
             timestamp |-> member.timestamp]]

\* detectDowntrends: the days it looks at, oldest first.
SnapshotDates(snaps, days) == Slice(SortedKeys(DOMAIN snaps), -days)

\* The process ends and a new one opens the store: whatever the store held is
\* read back from the file.
Restart(order) ==
    /\ snapshots' = Parsed(Stringified(snapshots, order))
    /\ call' = [op |-> "restart", order |-> order, before |-> snapshots]
    /\ result' = Null
    /\ UNCHANGED <<now, lastPositions, lastFetchTime, alertVars, cacheVars, mainVars,
                   procVars>>

-----------------------------------------------------------------------------
(* The Trading212Client.                                                   *)

\* The requests held in the log of the model.
MaxRequests == 4

\* constants.js: API_ENDPOINTS
ApiEndpoints ==
    [ACCOUNT_CASH |-> "/equity/account/cash",
     ACCOUNT_INFO |-> "/equity/account/info",
     POSITIONS    |-> "/equity/portfolio",
     INSTRUMENTS  |-> "/equity/metadata/instruments",
     DIVIDENDS    |-> "/equity/history/dividends",
     ORDERS       |-> "/equity/history/orders",
     TRANSACTIONS |-> "/equity/history/transactions"]

\* getDividends(limit = 50)
DefaultDividendsLimit == 50

\* _get that posts.
GetAsPost(endpoint, query) == [method |-> "POST", endpoint |-> endpoint, query |-> query]

\* _get(endpoint): fetch(baseUrl + endpoint, {method: 'GET', headers}).  The
\* endpoint is the path and the query string after it, if any.
Get(endpoint, query) == [method |-> "GET", endpoint |-> endpoint, query |-> query]

\* A client method that issues the given requests.
Issued(requests, op) ==
    /\ Len(http) + Len(requests) <= MaxRequests
    /\ http' = http \o requests
    /\ call' = [op |-> op]
    /\ result' = Null
    /\ UNCHANGED <<now, storeVars, alertVars, cacheVars, mainVars, appState, storeFile,
                   inFlight, updater>>

GetPositions == Issued(<<Get(ApiEndpoints.POSITIONS, <<>>)>>, "getPositions")

GetCashBalance == Issued(<<Get(ApiEndpoints.ACCOUNT_CASH, <<>>)>>, "getCashBalance")

GetAccountInfo == Issued(<<Get(ApiEndpoints.ACCOUNT_INFO, <<>>)>>, "getAccountInfo")

GetDividends(limit) ==
    Issued(<<Get(ApiEndpoints.DIVIDENDS,
                 <<"limit", IF limit = JsUndefined THEN DefaultDividendsLimit
                            ELSE limit.v>>)>>,
           "getDividends")

GetInstruments == Issued(<<Get(ApiEndpoints.INSTRUMENTS, <<>>)>>, "getInstruments")

\* getFullSummary: Promise.all of getPositions, getCashBalance, getAccountInfo
GetFullSummary ==
    Issued(<<Get(ApiEndpoints.POSITIONS, <<>>), Get(ApiEndpoints.ACCOUNT_CASH, <<>>),
             Get(ApiEndpoints.ACCOUNT_INFO, <<>>)>>,
           "getFullSummary")

\* testConnection: getAccountInfo
TestConnection == Issued(<<Get(ApiEndpoints.ACCOUNT_INFO, <<>>)>>, "testConnection")

-----------------------------------------------------------------------------
(* The refresh cycle await by await.  setInterval calls refreshData every  *)
(* interval; an invocation runs to its next await and goes on when the     *)
(* request it waits for settles.                                           *)

\* The invocations of refreshData in flight in the model.
MaxInFlight == 2

RemoveAt(seq, i) == SubSeq(seq, 1, i - 1) \o SubSeq(seq, i + 1, Len(seq))

\* An invocation that only logs the error it caught.
StepEndedSilentOnError(done) ==
    [st |-> done.st,
     sends |-> IF done.sent.channel = "error" THEN Null ELSE Some(done.sent),
     notes |-> done.notes, next |-> Null]

\* An invocation that ended: what refreshData leaves, and the message it sent.
StepEnded(done) ==
    [st |-> done.st, sends |-> Some(done.sent), notes |-> done.notes, next |-> Null]

\* An invocation that waits at its next await.
StepAwaits(st, cycle) ==
    [st |-> st, sends |-> Null, notes |-> <<>>, next |-> Some(cycle)]

\* refreshData after await apiClient.getPositions()
PositionsSettled(st, t, cycle, answer) ==
    IF IsNull(answer) THEN StepEnded(Aborted(st, t, <<"positions">>))
    ELSE StepAwaits(st, [pc |-> "cash", positions |-> ValueOf(answer)])

\* refreshData after await apiClient.getCashBalance(): lastCash is stored, and
\* the cycle goes on to its end unless the instruments have to be requested.
CashSettled(st, t, cycle, answer) ==
    IF IsNull(answer) THEN StepEnded(Aborted(st, t, <<"positions", "cash">>))
    ELSE LET adjusted == AdjustedCash(ValueOf(answer), ConfigTotalDeposits)
             loaded   == LoadedInstruments(st, t, Null)
         IN  IF loaded.requests = <<>>
             THEN StepEnded(CompletedWith(st, t, cycle.positions, adjusted, loaded))
             ELSE StepAwaits([st EXCEPT !.lastCash = Some(adjusted)],
                             [pc |-> "instruments", positions |-> cycle.positions,
                              cash |-> adjusted])

\* refreshData after await apiClient.getInstruments(): instrumentsMap is assigned
\* whatever it holds by now, a new Map of the answer or an empty one.
InstrumentsSettled(st, t, cycle, answer) ==
    LET map    == IF IsNull(answer) THEN EmptyMap ELSE InstrumentsMapOf(ValueOf(answer))
        saved  == IF IsNull(answer)
                  THEN [instruments |-> st.instruments,
                        instrumentsCacheTime |-> st.instrumentsCacheTime]
                  ELSE SavedInstruments(map, t)
        loaded == [instrumentsMap |-> Some(map), requests |-> <<"instruments">>] @@ saved
    IN  StepEnded(CompletedWith(st, t, cycle.positions, cycle.cash, loaded))

\* The timer fires: refreshData runs to await apiClient.getPositions().
StartRefresh ==
    /\ timers > 0
    /\ Len(inFlight) < MaxInFlight
    /\ inFlight' = Append(inFlight, [pc |-> "positions", by |-> "timer"])
    /\ call' = [op |-> "startRefresh"]
    /\ result' = Null
    /\ UNCHANGED <<now, storeVars, alertVars, cacheVars, mainVars, appState, storeFile,
                   http, updater>>

\* The REQUEST_REFRESH handler: refreshData runs to await
\* apiClient.getPositions(), whether or not another invocation is in flight.
RequestRefresh ==
    /\ appState = "running"
    /\ Len(inFlight) < MaxInFlight
    /\ inFlight' = Append(inFlight, [pc |-> "positions", by |-> "manual"])
    /\ call' = [op |-> "requestRefresh"]
    /\ result' = Null
    /\ UNCHANGED <<now, storeVars, alertVars, cacheVars, mainVars, appState, storeFile,
                   http, updater>>

\* The invocation numbered i goes on with the step taken.
Resumed(i, awaited, answer, step) ==
    /\ snapshots' = step.st.snapshots
    /\ lastPositions' = step.st.lastPositions
    /\ lastFetchTime' = step.st.lastFetchTime
    /\ lastCash' = step.st.lastCash
    /\ instruments' = step.st.instruments
    /\ instrumentsCacheTime' = step.st.instrumentsCacheTime
    /\ instrumentsMap' = step.st.instrumentsMap
    /\ shownAlerts' = step.st.shownAlerts
    /\ notifications' = step.notes
    /\ sent' = step.sends
    /\ inFlight' = IF IsNull(step.next) THEN RemoveAt(inFlight, i)
                   ELSE [inFlight EXCEPT ![i] = ValueOf(step.next) @@ [by |-> @.by]]
    /\ call' = [op |-> "resumeRefresh", awaited |-> awaited, answer |-> answer,
                by |-> inFlight[i].by, others |-> Len(inFlight) - 1]
    /\ result' = Null
    /\ UNCHANGED <<now, dailyLossThreshold, dailyGainThreshold, notificationSupported,
                   fileConfig, pollingInterval, timers, appState, storeFile,
                   http, updater>>

GetPositionsSettles(i, answer) ==
    /\ i \in DOMAIN inFlight
    /\ inFlight[i].pc = "positions"
    /\ \E step \in {PositionsSettled(CycleState, now, inFlight[i], answer)} :
          Resumed(i, "positions", answer, step)

GetCashBalanceSettles(i, answer) ==
    /\ i \in DOMAIN inFlight
    /\ inFlight[i].pc = "cash"
    /\ \E step \in {CashSettled(CycleState, now, inFlight[i], answer)} :
          Resumed(i, "cash", answer, step)

GetInstrumentsSettles(i, answer) ==
    /\ i \in DOMAIN inFlight
    /\ inFlight[i].pc = "instruments"
    /\ \E step \in {InstrumentsSettled(CycleState, now, inFlight[i], answer)} :
          Resumed(i, "instruments", answer, step)

-----------------------------------------------------------------------------
(* The polling timer.                                                      *)

\* pollingInterval and the timers of the event loop.
PollingState == [pollingInterval |-> pollingInterval, timers |-> timers]

\* startPolling that sets a new interval without clearing the one it has.
StartedPollingWithoutClearing(p) ==
    [pollingInterval |-> TRUE, timers |-> p.timers + 1]

\* startPolling: clearInterval of the interval it holds, if any, then setInterval.
StartedPolling(p) ==
    LET cleared == IF p.pollingInterval THEN p.timers - 1 ELSE p.timers
    IN  [pollingInterval |-> TRUE, timers |-> cleared + 1]

\* stopPolling: clearInterval of the interval it holds, and null; nothing if none.
StoppedPolling(p) ==
    IF p.pollingInterval
    THEN [pollingInterval |-> FALSE, timers |-> p.timers - 1]
    ELSE p

\* A handler of main.js that leaves the polling state p and the application in
\* the given state.
Polled(op, p, state) ==
    /\ pollingInterval' = p.pollingInterval
    /\ timers' = p.timers
    /\ appState' = state
    /\ call' = [op |-> op, before |-> PollingState]
    /\ result' = Null
    /\ UNCHANGED <<now, storeVars, alertVars, cacheVars, instrumentsMap, sent,
                   storeFile, inFlight, http, updater>>

StartPolling ==
    /\ appState = "running"
    /\ Polled("startPolling", StartedPolling(PollingState), appState)

StopPolling ==
    /\ appState = "running"
    /\ Polled("stopPolling", StoppedPolling(PollingState), appState)

\* window-all-closed: stopPolling, and app.quit() unless the platform is darwin;
\* app.quit() emits before-quit, whose handler calls stopPolling again.
WindowAllClosed(platform) ==
    /\ appState = "running"
    /\ IF platform = "darwin"
       THEN Polled("windowAllClosed", StoppedPolling(PollingState), appState)
       ELSE Polled("windowAllClosed", StoppedPolling(StoppedPolling(PollingState)),
                   "quit")

-----------------------------------------------------------------------------
(* Startup.                                                                *)

\* The file of the store as the DataStore constructor finds it.
StoreFiles == {"missing", "valid", "corrupt", "unreadable"}

\* new Store({name, defaults}): the defaults of the constructor.
StoreDefaults ==
    [snapshots |-> <<>>, lastPositions |-> <<>>, lastCash |-> Null,
     lastFetchTime |-> Null, instruments |-> Null, instrumentsCacheTime |-> Null]

\* The store as the variables hold it.
StoreOnDisk ==
    [snapshots |-> snapshots, lastPositions |-> lastPositions, lastCash |-> lastCash,
     lastFetchTime |-> lastFetchTime, instruments |-> instruments,
     instrumentsCacheTime |-> instrumentsCacheTime]

\* this.store = new Store({name, defaults}): electron-store reads the file in its
\* constructor.  No file: the defaults.  A file of JSON: its content.  A file
\* that cannot be read: the constructor throws.  A file that is not JSON: the
\* constructor throws too, unless the library clears invalid files; the options
\* given here do not say, so that is the default of the library installed.
\* Null is the constructor throwing.
OpenedStore(file, onDisk, clearInvalidConfig) ==
    IF file = "missing" THEN Some(StoreDefaults)
    ELSE IF file = "valid" THEN Some(onDisk)
    ELSE IF file = "corrupt" /\ clearInvalidConfig THEN Some(StoreDefaults)
    ELSE Null

\* initialize: the services are constructed and polling starts; whatever is
\* thrown on the way is shown in an error box and the application quits.
Initialize(clearInvalidConfig) ==
    /\ appState = "starting"
    /\ \E opened \in {OpenedStore(storeFile, StoreOnDisk, clearInvalidConfig)} :
          IF IsNull(opened)
          THEN /\ appState' = "quit"
               /\ UNCHANGED <<storeVars, cacheVars, storeFile, pollingInterval, timers>>
          ELSE /\ appState' = "running"
               /\ snapshots' = ValueOf(opened).snapshots
               /\ lastPositions' = ValueOf(opened).lastPositions
               /\ lastFetchTime' = ValueOf(opened).lastFetchTime
               /\ lastCash' = ValueOf(opened).lastCash
               /\ instruments' = ValueOf(opened).instruments
               /\ instrumentsCacheTime' = ValueOf(opened).instrumentsCacheTime
               /\ storeFile' = "valid"
               /\ \E started \in {StartedPolling(PollingState)} :
                     /\ pollingInterval' = started.pollingInterval
                     /\ timers' = started.timers
    /\ call' = [op |-> "initialize", storeFile |-> storeFile]
    /\ result' = Null
    /\ UNCHANGED <<now, alertVars, instrumentsMap, sent, inFlight, http, updater>>

-----------------------------------------------------------------------------
(* The auto-updater.                                                       *)

\* The update checks of one run in the model.
MaxChecks == 3

\* setupAutoUpdater: autoDownload = false, autoInstallOnAppQuit = true, and the
\* handlers registered; no check made, no dialog open, nothing downloading.
SetupAutoUpdater ==
    [autoDownload |-> FALSE, autoInstallOnAppQuit |-> TRUE, checks |-> 0,
     availableDialogs |-> 0, downloadedDialogs |-> 0, downloading |-> 0,
     downloadsStarted |-> 0, installs |-> 0]

\* The download of an update starts.
DownloadStarted(u) ==
    [u EXCEPT !.downloading = @ + 1, !.downloadsStarted = @ + 1]

\* autoUpdater emits update-available: the handler opens the dialog 'Update
\* Available' with the buttons Download and Later.  With autoDownload set the
\* updater starts the download itself.
UpdateAvailable(u) ==
    LET asked == [u EXCEPT !.availableDialogs = @ + 1]
    IN  IF u.autoDownload THEN DownloadStarted(asked) ELSE asked

\* checkForUpdates, three seconds after the start, and checkForUpdatesAndNotify,
\* from the menu: the updater finds an update or none.
CheckForUpdates(found) ==
    /\ appState = "running"
    /\ updater.checks < MaxChecks
    /\ updater' = IF found THEN UpdateAvailable([updater EXCEPT !.checks = @ + 1])
                  ELSE [updater EXCEPT !.checks = @ + 1]
    /\ call' = [op |-> "checkForUpdates", found |-> found]
    /\ result' = Null
    /\ UNCHANGED <<now, storeVars, alertVars, cacheVars, mainVars, appState, storeFile,
                   inFlight, http>>

\* The handler of update-available that downloads whatever the answer.
AnsweredUpdateAvailableAnyButton(u, response) ==
    DownloadStarted([u EXCEPT !.availableDialogs = @ - 1])

\* The handler of update-available after the dialog: result.response === 0 calls
\* autoUpdater.downloadUpdate().
AnsweredUpdateAvailable(u, response) ==
    LET closed == [u EXCEPT !.availableDialogs = @ - 1]
    IN  IF response = 0 THEN DownloadStarted(closed) ELSE closed

\* The user presses a button of an 'Update Available' dialog: 0 is Download, 1
\* is Later.
AnswerUpdateAvailable(response) ==
    /\ appState = "running"
    /\ updater.availableDialogs > 0
    /\ updater' = AnsweredUpdateAvailable(updater, response)
    /\ call' = [op |-> "answerUpdateAvailable", response |-> response]
    /\ result' = Null
    /\ UNCHANGED <<now, storeVars, alertVars, cacheVars, mainVars, appState, storeFile,
                   inFlight, http>>

\* A download ends: autoUpdater emits update-downloaded and the handler opens the
\* dialog 'Update Ready' with the buttons Restart Now and Later; or the download
\* fails, which the handlers report.
DownloadSettles(ok) ==
    /\ appState = "running"
    /\ updater.downloading > 0
    /\ updater' = [updater EXCEPT !.downloading = @ - 1,
                                  !.downloadedDialogs = IF ok THEN @ + 1 ELSE @]
    /\ call' = [op |-> "downloadSettles", ok |-> ok]
    /\ result' = Null
    /\ UNCHANGED <<now, storeVars, alertVars, cacheVars, mainVars, appState, storeFile,
                   inFlight, http>>

\* The handler of update-downloaded after the dialog: result.response === 0 calls
\* autoUpdater.quitAndInstall().
AnsweredUpdateDownloaded(u, response) ==
    [u EXCEPT !.downloadedDialogs = @ - 1,
              !.installs = IF response = 0 THEN @ + 1 ELSE @]

\* The user presses a button of an 'Update Ready' dialog: 0 is Restart Now, 1 is
\* Later.  quitAndInstall ends the application.
AnswerUpdateDownloaded(response) ==
    /\ appState = "running"
    /\ updater.downloadedDialogs > 0
    /\ updater' = AnsweredUpdateDownloaded(updater, response)
    /\ appState' = IF response = 0 THEN "quit" ELSE appState
    /\ call' = [op |-> "answerUpdateDownloaded", response |-> response]
    /\ result' = Null
    /\ UNCHANGED <<now, storeVars, alertVars, cacheVars, mainVars, storeFile, inFlight,
                   http>>

-----------------------------------------------------------------------------
(* The initial load of the renderer and the relaunch of the application.   *)

\* loadFromCache that saves the cached positions again, as refreshData does.
LoadedFromCacheSavesSnapshot(st, t, maxAgeMinutes) ==
    LET today == GetTodayKey(t)
        miss  == [loaded |-> FALSE, st |-> st, sent |-> Null, notes |-> <<>>,
                  requests |-> <<>>]
        fromDisk == IF IsInstrumentsCacheValid(st.instrumentsCacheTime, t)
                    THEN GetCachedInstruments(st.instruments) ELSE Null
        map   == IF ~IsNull(st.instrumentsMap) THEN st.instrumentsMap ELSE fromDisk
        names == IF IsNull(map) THEN EmptyMap ELSE ValueOf(map)
        cachedPositions == st.snapshots[today].positions
        positionsWithNames ==
            [i \in DOMAIN cachedPositions |-> WithNames(cachedPositions[i], names)]
        positionsWithChanges == DailyChanges(st.snapshots, t, positionsWithNames)
        downtrends == Downtrends(st.snapshots, TrendWindowDays, TrendThreshold)
        daily == CheckedAlerts(st.shownAlerts, positionsWithChanges,
                               st.dailyLossThreshold, st.dailyGainThreshold, today, t)
    IN  IF ~FreshData(st.lastFetchTime, t, maxAgeMinutes) THEN miss
        ELSE IF today \notin DOMAIN st.snapshots \/ IsNull(st.lastCash) THEN miss
        ELSE [loaded |-> TRUE,
              st |-> [st EXCEPT !.instrumentsMap = map,
                                !.shownAlerts = daily.shown,
                                !.snapshots = SavedSnapshots(st.snapshots, t,
                                                             cachedPositions),
                                !.lastPositions = cachedPositions,
                                !.lastFetchTime = Some(t)],
              sent |-> Some([channel |-> "positions-update",
                             positions |-> positionsWithChanges,
                             cash |-> AdjustedCash(ValueOf(st.lastCash),
                                                   ConfigTotalDeposits),
                             alerts |-> daily.alerts,
                             downtrends |-> downtrends,
                             lastUpdate |-> ValueOf(st.lastFetchTime),
                             fromCache |-> TRUE]),
              notes |-> daily.notes,
              requests |-> <<>>]

\* loadFromCache(maxAgeMinutes): false, with nothing done, unless the store has
\* fresh data, a snapshot of today and lastCash; else the cached positions go
\* through the names, the daily changes, the downtrends and checkAlerts and
\* are sent with fromCache: true.  instrumentsMap is filled from the disk cache
\* only; no API request is made and nothing is stored.
LoadedFromCache(st, t, maxAgeMinutes) ==
    LET today == GetTodayKey(t)
        miss  == [loaded |-> FALSE, st |-> st, sent |-> Null, notes |-> <<>>,
                  requests |-> <<>>]
        fromDisk == IF IsInstrumentsCacheValid(st.instrumentsCacheTime, t)
                    THEN GetCachedInstruments(st.instruments) ELSE Null
        map   == IF ~IsNull(st.instrumentsMap) THEN st.instrumentsMap ELSE fromDisk
        names == IF IsNull(map) THEN EmptyMap ELSE ValueOf(map)
        cachedPositions == st.snapshots[today].positions
        positionsWithNames ==
            [i \in DOMAIN cachedPositions |-> WithNames(cachedPositions[i], names)]
        positionsWithChanges == DailyChanges(st.snapshots, t, positionsWithNames)
        downtrends == Downtrends(st.snapshots, TrendWindowDays, TrendThreshold)
        daily == CheckedAlerts(st.shownAlerts, positionsWithChanges,
                               st.dailyLossThreshold, st.dailyGainThreshold, today, t)
    IN  IF ~FreshData(st.lastFetchTime, t, maxAgeMinutes) THEN miss
        ELSE IF today \notin DOMAIN st.snapshots \/ IsNull(st.lastCash) THEN miss
        ELSE [loaded |-> TRUE,
              st |-> [st EXCEPT !.instrumentsMap = map,
                                !.shownAlerts = daily.shown],
              sent |-> Some([channel |-> "positions-update",
                             positions |-> positionsWithChanges,
                             cash |-> AdjustedCash(ValueOf(st.lastCash),
                                                   ConfigTotalDeposits),
                             alerts |-> daily.alerts,
                             downtrends |-> downtrends,
                             lastUpdate |-> ValueOf(st.lastFetchTime),
                             fromCache |-> TRUE]),
              notes |-> daily.notes,
              requests |-> <<>>]

\* The variables after a handler that leaves st.
Handled(st) ==
    /\ snapshots' = st.snapshots
    /\ lastPositions' = st.lastPositions
    /\ lastFetchTime' = st.lastFetchTime
    /\ lastCash' = st.lastCash
    /\ instruments' = st.instruments
    /\ instrumentsCacheTime' = st.instrumentsCacheTime
    /\ instrumentsMap' = st.instrumentsMap
    /\ shownAlerts' = st.shownAlerts
    /\ UNCHANGED <<now, dailyLossThreshold, dailyGainThreshold, notificationSupported,
                   fileConfig, pollingInterval, timers, procVars>>

LoadFromCache(maxAgeMinutes) ==
    \E done \in {LoadedFromCache(CycleState, now, maxAgeMinutes)} :
        /\ Handled(done.st)
        /\ notifications' = done.notes
        /\ sent' = done.sent
        /\ call' = [op |-> "loadFromCache", maxAgeMinutes |-> maxAgeMinutes,
                    requests |-> done.requests, forgotten |-> ForgottenAlerts]
        /\ result' = done.loaded

\* What the handler leaves when loadFromCache returned true.
ServedFromCache(cached) ==
    [cacheLoaded |-> TRUE, refreshes |-> 0,
     st |-> cached.st, sent |-> cached.sent, notes |-> cached.notes,
     messages |-> 1, requests |-> cached.requests]

\* What the handler leaves when it went on to refreshData.
ServedByRefresh(done) ==
    [cacheLoaded |-> FALSE, refreshes |-> 1,
     st |-> done.st, sent |-> Some(done.sent), notes |-> done.notes,
     messages |-> 1, requests |-> done.requests]

\* refreshData run after a loadFromCache that sent the cache.
RefreshedAfterCache(cached, done) ==
    [cacheLoaded |-> TRUE, refreshes |-> 1,
     st |-> done.st, sent |-> Some(done.sent),
     notes |-> cached.notes \o done.notes,
     messages |-> 2, requests |-> done.requests]

\* REQUEST_POSITIONS that refreshes whether or not the cache was loaded.
AnsweredPositionsAlwaysRefreshes(cached, st, t, fetched) ==
    IF cached.loaded
    THEN RefreshedAfterCache(cached, Refreshed(cached.st, t, fetched))
    ELSE ServedByRefresh(Refreshed(st, t, fetched))

\* The REQUEST_POSITIONS handler after loadFromCache(30) returned: refreshData
\* if it returned false.
AnsweredPositions(cached, st, t, fetched) ==
    IF cached.loaded
    THEN ServedFromCache(cached)
    ELSE ServedByRefresh(Refreshed(st, t, fetched))

\* The REQUEST_POSITIONS handler: loadFromCache(30), and refreshData if it
\* returned false.
RequestedPositions(st, t, fetched) ==
    AnsweredPositions(LoadedFromCache(st, t, JsNum(DefaultMaxAgeMinutes)), st, t, fetched)

RequestPositions(fetched) ==
    \E done \in {RequestedPositions(CycleState, now, fetched)} :
        /\ Handled(done.st)
        /\ notifications' = done.notes
        /\ sent' = done.sent
        /\ call' = [op |-> "requestPositions", cacheLoaded |-> done.cacheLoaded,
                    refreshes |-> done.refreshes, messages |-> done.messages,
                    requests |-> done.requests, forgotten |-> ForgottenAlerts,
                    before |-> [lastFetchTime |-> lastFetchTime,
                                snapshots |-> snapshots, lastCash |-> lastCash]]
        /\ result' = Null

\* A relaunch that finds the shown alerts of the process that ended.
RelaunchKeepsShownAlerts ==
    /\ appState = "running"
    /\ inFlight = <<>>
    /\ instrumentsMap' = Null
    /\ pollingInterval' = TRUE
    /\ timers' = 1
    /\ sent' = Null
    /\ notifications' = <<>>
    /\ call' = [op |-> "relaunch", before |-> shownAlerts]
    /\ result' = Null
    /\ UNCHANGED <<now, storeVars, cacheVars, dailyLossThreshold, dailyGainThreshold,
                   shownAlerts, notificationSupported, fileConfig, procVars>>

\* The application is quit and started again: the store file stays, the module
\* variables of main.js start null, and initialize builds a new AlertManager
\* from the same config.json, whose shownAlerts is a new Set.
Relaunch ==
    /\ appState = "running"
    /\ inFlight = <<>>
    /\ shownAlerts' = {}
    /\ instrumentsMap' = Null
    /\ pollingInterval' = TRUE
    /\ timers' = 1
    /\ sent' = Null
    /\ notifications' = <<>>
    /\ call' = [op |-> "relaunch", before |-> shownAlerts]
    /\ result' = Null
    /\ UNCHANGED <<now, storeVars, cacheVars, dailyLossThreshold, dailyGainThreshold,
                   notificationSupported, fileConfig, procVars>>

-----------------------------------------------------------------------------
(* The clock.                                                              *)

AdvanceClock ==
    /\ \E t \in Instants : t > now /\ now' = t
    /\ call' = [op |-> "tick"]
    /\ result' = Null
    /\ UNCHANGED <<storeVars, alertVars, cacheVars, mainVars, procVars>>

-----------------------------------------------------------------------------

\* Before the first refresh cycle: nothing cached on disk or in memory, the
\* polling timer set by initialize, nothing sent to the renderer.
\* The application running, nothing in flight, no request issued, the updater
\* as setupAutoUpdater leaves it.
InitProc ==
    /\ appState = "running"
    /\ storeFile = "valid"
    /\ inFlight = <<>>
    /\ http = <<>>
    /\ updater = SetupAutoUpdater

InitMain ==
    /\ InitProc
    /\ lastCash = Null
    /\ instruments = Null
    /\ instrumentsCacheTime = Null
    /\ instrumentsMap = Null
    /\ pollingInterval = TRUE
    /\ timers = 1
    /\ sent = Null

Init ==
    /\ now = StartMinute
    /\ snapshots = <<>>
    /\ lastPositions = <<>>
    /\ lastFetchTime = Null
    /\ InitMain
    /\ InitAlertManager(NoFileConfig)
    /\ notificationSupported = TRUE
    /\ call = [op |-> "init"]
    /\ result = Null

Next ==
    \/ AdvanceClock
    \/ \E positions \in FetchLists : SaveSnapshot(positions)
    \/ GetYesterdaySnapshot
    \/ \E positions \in FetchLists : CalculateDailyChanges(positions)

Spec == Init /\ [][Next]_vars

-----------------------------------------------------------------------------
(* The change calculator and the trend detector on every short series, on  *)
(* the third day of the series and on the day after it.                    *)

\* The windows and thresholds detectDowntrends is asked for.
WindowArgs == 0 .. MaxWindow
Thresholds == {-15, -10, 0}

\* Series of up to three consecutive days: any list on the first and the last
\* day, a fetched list on the day between.
CalcSeries ==
    LET day(i) == DateToKey(StartMinute + i * MinutesPerDay)
        absent == {<<>>}
        pick(i, lists) ==
            absent \cup {<<[positions |-> l, timestamp |-> StartMinute + i * MinutesPerDay]>> :
                            l \in lists}
    IN  { [k \in {day(i) : i \in {j \in 0 .. 2 : s[j + 1] # <<>>}} |->
              s[(CHOOSE i \in 0 .. 2 : day(i) = k) + 1][1]] :
          s \in pick(0, PositionLists) \X pick(1, FetchLists) \X pick(2, PositionLists) }

InitCalc ==
    /\ now \in {StartMinute + 2 * MinutesPerDay + 12 * 60, StartMinute + 3 * MinutesPerDay}
    /\ snapshots \in CalcSeries
    /\ lastPositions = <<>>
    /\ lastFetchTime = Null
    /\ InitMain
    /\ InitAlertManager(NoFileConfig)
    /\ notificationSupported = TRUE
    /\ call = [op |-> "init"]
    /\ result = Null

\* Each behaviour applies one of the two functions once to the series drawn, or
\* restarts the process on it.
NextCalc ==
    /\ call.op = "init"
    /\ \/ \E positions \in PositionLists : CalculateDailyChanges(positions)
       \/ \E days \in WindowArgs, threshold \in Thresholds : DetectDowntrends(days, threshold)
       \/ \E order \in KeyOrders(DOMAIN snapshots) : Restart(order)

SpecCalc == InitCalc /\ [][NextCalc]_vars

-----------------------------------------------------------------------------
(* The AlertManager under every sequence of its operations, over two days. *)

\* Yesterday's prices of the positions checked: both tickers at 100, so that the
\* change in percent is the price minus 100.
AlertBasePositions == <<Position("AAPL_US_EQ", 100), Position("TSLA_US_EQ", 100)>>

WithChange(ticker, price) == EnhancedPosition(Position(ticker, price), AlertBasePositions)
WithoutYesterday(ticker, price) == EnhancedPosition(Position(ticker, price), <<>>)

\* Lists as calculateDailyChanges returns them: changes of -6, -5, 0, +10 and +12
\* per cent around the default thresholds, and positions without yesterday data.
AlertInputs ==
    {<<WithChange("AAPL_US_EQ", p)>> : p \in {94, 95, 100, 110, 112}}
    \cup {<<WithoutYesterday("AAPL_US_EQ", 94)>>}
    \cup {<<WithChange("AAPL_US_EQ", p), WithChange("TSLA_US_EQ", q)>> :
            p \in {94, 112}, q \in {94, 100}}
    \cup {<<WithChange("TSLA_US_EQ", 94), WithoutYesterday("AAPL_US_EQ", 94)>>}

\* The alert machine's clock stays within the start day and the day after it.
AdvanceClockNear ==
    /\ AdvanceClock
    /\ now' < StartMinute + 2 * MinutesPerDay

InitAlerts ==
    /\ now = StartMinute
    /\ snapshots = <<>>
    /\ lastPositions = <<>>
    /\ lastFetchTime = Null
    /\ InitMain
    /\ InitAlertManager(NoFileConfig)
    /\ notificationSupported \in BOOLEAN
    /\ call = [op |-> "init"]
    /\ result = Null

NextAlerts ==
    \/ AdvanceClockNear
    \/ \E positions \in AlertInputs : CheckAlerts(positions)
    \/ \E config \in FileConfigs : UpdateThresholds(config)
    \/ ClearTodayAlerts
    \/ ClearAllAlerts

SpecAlerts == InitAlerts /\ [][NextAlerts]_vars

\* The AlertManager with both kinds of check: the daily check of one position
\* and the trend check of the lists detectDowntrends(5, -10) gives for two-day
\* series that start with both tickers at 100.
DailyInputs == {<<WithChange("AAPL_US_EQ", p)>> : p \in {94, 100}}

TwoDaySeries(first, last) ==
    [k \in {DateToKey(StartMinute), DateToKey(StartMinute + MinutesPerDay)} |->
        IF k = DateToKey(StartMinute)
        THEN [positions |-> first, timestamp |-> StartMinute]
        ELSE [positions |-> last, timestamp |-> StartMinute + MinutesPerDay]]

TrendInputs ==
    {Downtrends(TwoDaySeries(AlertBasePositions, last), TrendWindowDays, TrendThreshold) :
        last \in {<<Position("AAPL_US_EQ", 100)>>,
                  <<Position("AAPL_US_EQ", 85)>>,
                  <<Position("TSLA_US_EQ", 85), Position("AAPL_US_EQ", 85)>>,
                  <<Position("AAPL_US_EQ", 100), Position("TSLA_US_EQ", 0)>>}}

NextTrendAlerts ==
    \/ AdvanceClockNear
    \/ \E positions \in DailyInputs : CheckAlerts(positions)
    \/ \E downtrends \in TrendInputs : CheckDowntrendAlerts(downtrends)
    \/ ClearTodayAlerts
    \/ ClearAllAlerts

SpecTrendAlerts == InitAlerts /\ [][NextTrendAlerts]_vars

\* The store when a store.set inside saveSnapshot can throw.
StoreWrites == 1 .. 3

NextStoreFaults ==
    \/ AdvanceClockNear
    \/ \E positions \in FetchLists : SaveSnapshot(positions)
    \/ \E positions \in FetchLists, failedWrite \in StoreWrites :
          SaveSnapshotWriteFails(positions, failedWrite)

SpecStoreFaults == Init /\ [][NextStoreFaults]_vars

\* The AlertManager when a notification can throw inside checkAlerts: at the
\* first or at the second notification of the call.
SinkFailures == 1 .. 2

NextSinkFaults ==
    \/ AdvanceClockNear
    \/ \E positions \in AlertInputs : CheckAlerts(positions)
    \/ \E positions \in AlertInputs, failAt \in SinkFailures :
          CheckAlertsSinkThrows(positions, failAt)

SpecSinkFaults == Init /\ [][NextSinkFaults]_vars

\* The application polling: refresh cycles on the start day and the day after.
\* A previous run left nothing on disk, or the snapshot it saved at noon of the
\* day before the start with the cash it fetched then; the instruments cache it
\* left is missing, or 12 hours old at the start, or two days old.
PreviousRunStores ==
    {[snapshots |-> <<>>, lastPositions |-> <<>>, lastFetchTime |-> Null,
      lastCash |-> Null],
     [snapshots |-> SavedSnapshots(<<>>, StartMinute - 12 * 60, AlertBasePositions),
      lastPositions |-> AlertBasePositions,
      lastFetchTime |-> Some(StartMinute - 12 * 60),
      lastCash |-> Some(Cash)]}

PreviousRunCaches ==
    {[instruments |-> Null, instrumentsCacheTime |-> Null]}
    \cup {[instruments |-> Some(InstrumentsMapOf(InstrumentsList)),
           instrumentsCacheTime |-> Some(StartMinute - age)] :
             age \in {12 * 60, 2 * MinutesPerDay}}

InitRefresh ==
    /\ now = StartMinute
    /\ \E store \in PreviousRunStores :
          /\ snapshots = store.snapshots
          /\ lastPositions = store.lastPositions
          /\ lastFetchTime = store.lastFetchTime
          /\ lastCash = store.lastCash
    /\ \E cache \in PreviousRunCaches :
          /\ instruments = cache.instruments
          /\ instrumentsCacheTime = cache.instrumentsCacheTime
    /\ instrumentsMap = Null
    /\ pollingInterval = TRUE
    /\ timers = 1
    /\ sent = Null
    /\ InitProc
    /\ InitAlertManager(NoFileConfig)
    /\ notificationSupported = TRUE
    /\ call = [op |-> "init"]
    /\ result = Null

NextRefresh ==
    \/ AdvanceClockNear
    \/ \E fetched \in FetchOutcomes : TimerRefresh(fetched)

SpecRefresh == InitRefresh /\ [][NextRefresh]_vars

\* The application from startup on: the AlertManager is built from the
\* configuration file and the refresh cycles check the alerts; nothing in the
\* application calls updateThresholds or the clear operations.
InitStartup ==
    /\ now = StartMinute
    /\ snapshots = <<>>
    /\ lastPositions = <<>>
    /\ lastFetchTime = Null
    /\ InitMain
    /\ \E fc \in FileConfigs : InitAlertManager(fc)
    /\ notificationSupported = TRUE
    /\ call = [op |-> "init"]
    /\ result = Null

NextStartup ==
    \/ AdvanceClockNear
    \/ \E positions \in AlertInputs : CheckAlerts(positions)

SpecStartup == InitStartup /\ [][NextStartup]_vars

-----------------------------------------------------------------------------
(* The machines of the cache, the freshness query, the client, the polling *)
(* timer, the startup and the updater.                                     *)

\* The instruments cache under saves and validity checks, over two days.
InstrumentMaps == {InstrumentsMapOf(list) : list \in InstrumentsLists}

NextCache ==
    \/ AdvanceClockNear
    \/ \E map \in InstrumentMaps : SaveInstruments(map)
    \/ IsInstrumentsCacheValidNow

SpecCache == Init /\ [][NextCache]_vars

\* The same with a store whose writes may fail: the first or the second
\* store.set of a saveInstruments throws.
InstrumentWrites == 1 .. 2

NextCacheFaults ==
    \/ AdvanceClockNear
    \/ \E map \in InstrumentMaps : SaveInstruments(map)
    \/ \E map \in InstrumentMaps, failedWrite \in InstrumentWrites :
          SaveInstrumentsWriteFails(map, failedWrite)

SpecCacheFaults == Init /\ [][NextCacheFaults]_vars

\* Snapshots saved and hasFreshData asked, over two days: with its default, and
\* with ages of nothing, of half a day and of a day.
MaxAges == {JsUndefined, JsNum(0), JsNum(12 * 60), JsNum(MinutesPerDay)}

NextFresh ==
    \/ AdvanceClockNear
    \/ \E positions \in FetchLists : SaveSnapshot(positions)
    \/ \E maxAgeMinutes \in MaxAges : HasFreshData(maxAgeMinutes)

SpecFresh == Init /\ [][NextFresh]_vars

\* The client under every sequence of its methods.
DividendLimits == {JsUndefined, JsNum(10)}

NextClient ==
    \/ GetPositions
    \/ GetCashBalance
    \/ GetAccountInfo
    \/ \E limit \in DividendLimits : GetDividends(limit)
    \/ GetInstruments
    \/ GetFullSummary
    \/ TestConnection

SpecClient == Init /\ [][NextClient]_vars

\* The application polling with the timer firing whenever it likes and every
\* request settling whenever it likes.
PositionsAnswers == {Null} \cup {Some(l) : l \in FetchLists}
CashAnswers == {Null, Some(Cash)}
InstrumentsAnswers == {Null, Some(InstrumentsList)}

NextPolling ==
    \/ AdvanceClockNear
    \/ StartRefresh
    \/ RequestRefresh
    \/ \E i \in 1 .. MaxInFlight, answer \in PositionsAnswers :
          GetPositionsSettles(i, answer)
    \/ \E i \in 1 .. MaxInFlight, answer \in CashAnswers :
          GetCashBalanceSettles(i, answer)
    \/ \E i \in 1 .. MaxInFlight, answer \in InstrumentsAnswers :
          GetInstrumentsSettles(i, answer)

SpecPolling == Init /\ [][NextPolling]_vars

\* The application from its launch: the file of the store is missing, or holds
\* what a previous run left, or is not JSON, or cannot be read.
PreviousRuns == {store @@ cache : store \in PreviousRunStores, cache \in PreviousRunCaches}

InitLaunch ==
    /\ now = StartMinute
    /\ storeFile \in StoreFiles
    /\ \E onDisk \in (IF storeFile = "valid" THEN PreviousRuns ELSE {StoreDefaults}) :
          /\ snapshots = onDisk.snapshots
          /\ lastPositions = onDisk.lastPositions
          /\ lastFetchTime = onDisk.lastFetchTime
          /\ lastCash = onDisk.lastCash
          /\ instruments = onDisk.instruments
          /\ instrumentsCacheTime = onDisk.instrumentsCacheTime
    /\ instrumentsMap = Null
    /\ pollingInterval = FALSE
    /\ timers = 0
    /\ sent = Null
    /\ appState = "starting"
    /\ inFlight = <<>>
    /\ http = <<>>
    /\ updater = SetupAutoUpdater
    /\ InitAlertManager(NoFileConfig)
    /\ notificationSupported = TRUE
    /\ call = [op |-> "init"]
    /\ result = Null

NextLaunch ==
    \/ \E clearInvalidConfig \in BOOLEAN : Initialize(clearInvalidConfig)
    \/ AdvanceClockNear
    \/ \E fetched \in FetchOutcomes : TimerRefresh(fetched)

SpecLaunch == InitLaunch /\ [][NextLaunch]_vars

\* The updater of a running application: checks, dialogs and downloads.
Buttons == {0, 1}

NextUpdater ==
    \/ \E found \in BOOLEAN : CheckForUpdates(found)
    \/ \E response \in Buttons : AnswerUpdateAvailable(response)
    \/ \E ok \in BOOLEAN : DownloadSettles(ok)
    \/ \E response \in Buttons : AnswerUpdateDownloaded(response)

SpecUpdater == Init /\ [][NextUpdater]_vars

\* The session around a midnight, in steps of ten minutes.
MaxTicks == 5
SessionStart == StartMinute + MinutesPerDay - 20
SessionInstants == {SessionStart + 10 * k : k \in 0 .. MaxTicks}

AdvanceClockSession ==
    /\ \E t \in SessionInstants : t > now /\ now' = t
    /\ call' = [op |-> "tick"]
    /\ result' = Null
    /\ UNCHANGED <<storeVars, alertVars, cacheVars, mainVars, procVars>>

\* What earlier runs left in the store: nothing; a snapshot of the day before;
\* that and a snapshot of ten minutes ago, written by the version of main.js
\* that stores no lastCash or by the current one.
SessionYesterday == SavedSnapshots(<<>>, StartMinute - 12 * 60, AlertBasePositions)
SessionToday ==
    SavedSnapshots(SessionYesterday, SessionStart - 10,
                   <<Position("AAPL_US_EQ", 85), Position("TSLA_US_EQ", 100)>>)
SessionStores ==
    {[snapshots |-> <<>>, lastPositions |-> <<>>, lastFetchTime |-> Null,
      lastCash |-> Null],
     [snapshots |-> SessionYesterday, lastPositions |-> AlertBasePositions,
      lastFetchTime |-> Some(StartMinute - 12 * 60), lastCash |-> Some(Cash)]}
    \cup {[snapshots |-> SessionToday,
           lastPositions |-> SessionToday[GetTodayKey(SessionStart)].positions,
           lastFetchTime |-> Some(SessionStart - 10), lastCash |-> cash] :
             cash \in {Null, Some(Cash)}}

InitSession ==
    /\ now = SessionStart
    /\ \E store \in SessionStores :
          /\ snapshots = store.snapshots
          /\ lastPositions = store.lastPositions
          /\ lastFetchTime = store.lastFetchTime
          /\ lastCash = store.lastCash
    /\ \E cache \in PreviousRunCaches :
          /\ instruments = cache.instruments
          /\ instrumentsCacheTime = cache.instrumentsCacheTime
    /\ instrumentsMap = Null
    /\ pollingInterval = TRUE
    /\ timers = 1
    /\ sent = Null
    /\ InitProc
    /\ InitAlertManager(NoFileConfig)
    /\ notificationSupported = TRUE
    /\ call = [op |-> "init"]
    /\ result = Null

MaxAgesRequested == {JsUndefined, JsNum(20)}

\* The answers of the API in the session: no answer at all, or the positions of
\* the day with the cash and the instruments.
SessionOutcomes ==
    {[positions |-> Null, cash |-> Null, instruments |-> Null],
     [positions |-> Some(<<Position("AAPL_US_EQ", 85), Position("TSLA_US_EQ", 100)>>),
      cash |-> Some(Cash), instruments |-> Some(InstrumentsList)]}

NextSession ==
    \/ AdvanceClockSession
    \/ \E fetched \in SessionOutcomes : TimerRefresh(fetched)
    \/ \E fetched \in SessionOutcomes : RequestPositions(fetched)
    \/ \E maxAgeMinutes \in MaxAgesRequested : LoadFromCache(maxAgeMinutes)
    \/ Relaunch

SpecSession == InitSession /\ [][NextSession]_vars

\* The polling timer under every sequence of startPolling and stopPolling, with
\* the cycles the timer starts.
Platforms == {"darwin", "linux"}

NextTimer ==
    \/ AdvanceClockNear
    \/ StartPolling
    \/ StopPolling
    \/ \E platform \in Platforms : WindowAllClosed(platform)
    \/ \E fetched \in SessionOutcomes : TimerRefresh(fetched)

SpecTimer == InitRefresh /\ [][NextTimer]_vars



-----------------------------------------------------------------------------
(* Calendar days of the clock and of the stored keys, for the properties.  *)

\* The day number of the clock, and of a stored key.
Today == now \div MinutesPerDay
DayOfKey(k) == DaysFromCivil(k)

\* The stored keys of the calendar day before today.
PrecedingDayKeys == {k \in DOMAIN snapshots : DayOfKey(k) = Today - 1}

-----------------------------------------------------------------------------
(* C1: after any saveSnapshot made at time `now`, no stored key is older   *)
(* than the day 90 days before `now`: every remaining key's calendar day   *)
(* is within 90 days of the save, after the first save and after every     *)
(* later one.                                                              *)
C1_RetentionAfterSave ==
    call.op = "saveSnapshot" =>
        \A k \in DOMAIN snapshots : DayOfKey(k) >= Today - RetentionDays

\* A save that swept an older key away and kept the key that is exactly 90 days old.
C1_Witness ==
    /\ call.op = "saveSnapshot"
    /\ \E k \in DOMAIN call.before : k \notin DOMAIN snapshots
    /\ \E k \in DOMAIN snapshots : DayOfKey(k) = Today - RetentionDays

(* C2: at most one snapshot per calendar day, last write wins: after a     *)
(* save the entry of today's key holds exactly the positions of that save  *)
(* (nothing of an earlier save of the day), every stored day has one key,  *)
(* and a save on a day that already had a snapshot does not add a key.     *)
C2_LastWriteWins ==
    call.op = "saveSnapshot" =>
        /\ \A k \in DOMAIN snapshots :
              DayOfKey(k) = Today =>
                  snapshots[k] = [positions |-> call.positions, timestamp |-> now]
        /\ \A k1, k2 \in DOMAIN snapshots : DayOfKey(k1) = DayOfKey(k2) => k1 = k2
        /\ \E k \in DOMAIN snapshots : DayOfKey(k) = Today
        /\ (\E k \in DOMAIN call.before : DayOfKey(k) = Today) =>
              Cardinality(DOMAIN snapshots) <= Cardinality(DOMAIN call.before)

\* A second save on a day whose first save stored other positions.
C2_Witness ==
    /\ call.op = "saveSnapshot"
    /\ \E k \in DOMAIN call.before :
          /\ DayOfKey(k) = Today
          /\ call.before[k].positions # call.positions
          /\ call.before[k].positions # <<>>
          /\ call.before[k].timestamp < now

(* C3: getYesterdaySnapshot returns a snapshot only if one is stored under *)
(* exactly the calendar day before today, and then that one; if that day   *)
(* is missing it returns null even when older snapshots exist, and         *)
(* calculateDailyChanges then gives every position hasYesterdayData=false  *)
(* with dailyChange 0 and dailyChangePercent 0.                            *)
C3_ExactPreviousDay ==
    /\ call.op = "getYesterdaySnapshot" =>
          IF PrecedingDayKeys = {}
          THEN result = Null
          ELSE \E k \in PrecedingDayKeys : result = Some(snapshots[k])
    /\ (call.op = "calculateDailyChanges" /\ PrecedingDayKeys = {}) =>
          /\ Len(result) = Len(call.positions)
          /\ \A i \in DOMAIN result :
                /\ result[i].hasYesterdayData = FALSE
                /\ result[i].dailyChange = 0
                /\ result[i].dailyChangePercent = IntNum(0)

\* Daily changes computed on a day whose yesterday is missing while an older
\* snapshot holds one of the current tickers at another price.
C3_Witness ==
    /\ call.op = "calculateDailyChanges"
    /\ PrecedingDayKeys = {}
    /\ \E k \in DOMAIN snapshots, i \in DOMAIN call.positions :
          /\ DayOfKey(k) < Today - 1
          /\ \E j \in DOMAIN snapshots[k].positions :
                /\ snapshots[k].positions[j].ticker = call.positions[i].ticker
                /\ snapshots[k].positions[j].currentPrice > 0
                /\ snapshots[k].positions[j].currentPrice # call.positions[i].currentPrice

-----------------------------------------------------------------------------
(* Alert events and breaches, for the properties.                          *)

\* The events of one type for one ticker in a list of triggered alerts.
EventsFor(alerts, ticker, type) ==
    Cardinality({i \in DOMAIN alerts : alerts[i].ticker = ticker /\ alerts[i].type = type})

\* A position with yesterday data whose change is at or below a loss threshold
\* (at or above a gain threshold) that is set.
BreachesLoss(p, threshold) ==
    /\ p.hasYesterdayData
    /\ threshold.k = "number"
    /\ p.dailyChangePercent.k = "fin"
    /\ p.dailyChangePercent.n <= threshold.v * p.dailyChangePercent.d

BreachesGain(p, threshold) ==
    /\ p.hasYesterdayData
    /\ threshold.k = "number"
    /\ p.dailyChangePercent.k = "fin"
    /\ p.dailyChangePercent.n >= threshold.v * p.dailyChangePercent.d

YesterdayKey == CivilFromDays(Today - 1)
TodayKey == CivilFromDays(Today)

(* C4: alert dedup by day.  In every checkAlerts call, a position that     *)
(* breaches the loss (gain) threshold gives exactly one daily_loss         *)
(* (daily_gain) event if its (ticker, kind, today) key was not yet shown   *)
(* and none if it was, and the key is shown afterwards; a key enters       *)
(* shownAlerts only with an event of today, and leaves it only by a reset. *)
(* So the first breaching call of a day emits one event, every later call  *)
(* that day none, and the first breaching call of the next day one again.  *)
C4_DedupByDay ==
    [][ /\ call'.op = "checkAlerts" =>
            /\ \A i \in DOMAIN call'.positions :
                  LET p == call'.positions[i]
                  IN  /\ BreachesLoss(p, dailyLossThreshold) =>
                            /\ EventsFor(result', p.ticker, "daily_loss") =
                                  (IF <<p.ticker, "loss", TodayKey>> \in shownAlerts
                                   THEN 0 ELSE 1)
                            /\ <<p.ticker, "loss", TodayKey>> \in shownAlerts'
                      /\ BreachesGain(p, dailyGainThreshold) =>
                            /\ EventsFor(result', p.ticker, "daily_gain") =
                                  (IF <<p.ticker, "gain", TodayKey>> \in shownAlerts
                                   THEN 0 ELSE 1)
                            /\ <<p.ticker, "gain", TodayKey>> \in shownAlerts'
            /\ \A key \in shownAlerts' \ shownAlerts :
                  /\ key[3] = TodayKey
                  /\ EventsFor(result', key[1],
                               IF key[2] = "loss" THEN "daily_loss" ELSE "daily_gain") = 1
        /\ call'.op \notin {"clearTodayAlerts", "clearAllAlerts"} =>
              shownAlerts \subseteq shownAlerts'
      ]_vars

\* On day D+1 a check emitted a daily_loss event for a ticker whose loss alert of
\* day D is still in shownAlerts.
C4_Witness ==
    /\ call.op = "checkAlerts"
    /\ \E i \in DOMAIN result :
          /\ result[i].type = "daily_loss"
          /\ <<result[i].ticker, "loss", YesterdayKey>> \in shownAlerts
          /\ <<result[i].ticker, "loss", TodayKey>> \in shownAlerts

(* C5: a null threshold never triggers.  While dailyLossThreshold is null, *)
(* no checkAlerts call returns a daily_loss event or adds a loss key to    *)
(* shownAlerts, whatever the changes are; likewise dailyGainThreshold,     *)
(* daily_gain events and gain keys.                                        *)
C5_NullNeverTriggers ==
    [][ call'.op = "checkAlerts" =>
          /\ dailyLossThreshold = JsNull =>
                /\ \A i \in DOMAIN result' : result'[i].type # "daily_loss"
                /\ {key \in shownAlerts' : key[2] = "loss"}
                     = {key \in shownAlerts : key[2] = "loss"}
          /\ dailyGainThreshold = JsNull =>
                /\ \A i \in DOMAIN result' : result'[i].type # "daily_gain"
                /\ {key \in shownAlerts' : key[2] = "gain"}
                     = {key \in shownAlerts : key[2] = "gain"}
      ]_vars

\* A check with the loss threshold null of a position that fell by 6 per cent.
C5_Witness ==
    /\ call.op = "checkAlerts"
    /\ dailyLossThreshold = JsNull
    /\ \E i \in DOMAIN call.positions :
          /\ call.positions[i].hasYesterdayData
          /\ call.positions[i].dailyChangePercent = IntNum(-6)
          /\ <<call.positions[i].ticker, "loss", TodayKey>> \notin shownAlerts

(* C6: a threshold set to null in config.json disables that alert type:    *)
(* the AlertManager built from it at startup never emits a daily_loss      *)
(* (daily_gain) alert in any later refresh cycle.                          *)
C6_NullConfigDisables ==
    call.op = "checkAlerts" =>
        /\ fileConfig.dailyLossThreshold = JsNull =>
              \A i \in DOMAIN result : result[i].type # "daily_loss"
        /\ fileConfig.dailyGainThreshold = JsNull =>
              \A i \in DOMAIN result : result[i].type # "daily_gain"

-----------------------------------------------------------------------------
(* Yesterday's prices and the trend window, for the properties.            *)

\* The prices a list of positions gives for a ticker.
PricesIn(positions, ticker) ==
    {positions[j].currentPrice : j \in {j \in DOMAIN positions : positions[j].ticker = ticker}}

\* The prices the snapshot of the day before today gives for a ticker.
PreviousPrices(ticker) ==
    UNION {PricesIn(snapshots[k].positions, ticker) : k \in PrecedingDayKeys}

(* C7: for every current position whose ticker is in the previous day's    *)
(* snapshot, calculateDailyChanges gives dailyChange = currentPrice -      *)
(* previousPrice, and dailyChangePercent = 0 when the previous price is    *)
(* <= 0 and (currentPrice - previousPrice) / previousPrice * 100 otherwise.*)
C7_DailyChangePercent ==
    call.op = "calculateDailyChanges" =>
        \A i \in DOMAIN call.positions :
            \A prev \in PreviousPrices(call.positions[i].ticker) :
                LET cur == call.positions[i].currentPrice
                    pct == result[i].dailyChangePercent
                IN  /\ result[i].dailyChange = cur - prev
                    /\ pct.k = "fin"
                    /\ IF prev <= 0
                       THEN pct.n = 0
                       ELSE pct.n * prev = (cur - prev) * 100 * pct.d

\* Daily changes of two positions: one whose previous price is 0 and whose current
\* price is not, one whose price moved from a positive previous price.
C7_Witness ==
    /\ call.op = "calculateDailyChanges"
    /\ \E i, j \in DOMAIN call.positions :
          /\ 0 \in PreviousPrices(call.positions[i].ticker)
          /\ call.positions[i].currentPrice > 0
          /\ \E prev \in PreviousPrices(call.positions[j].ticker) :
                prev > 0 /\ call.positions[j].currentPrice \notin {0, prev}

(* C8: calculateDailyChanges matches positions by ticker.  The output has  *)
(* the length and the ticker order of the current list; a position has     *)
(* hasYesterdayData exactly if its ticker is in the previous day's         *)
(* snapshot; a ticker only in the current list has both deltas 0; a ticker *)
(* only in the previous snapshot gets no output record.                    *)
C8_TickerMatching ==
    call.op = "calculateDailyChanges" =>
        /\ Len(result) = Len(call.positions)
        /\ \A i \in DOMAIN call.positions :
              /\ result[i].ticker = call.positions[i].ticker
              /\ result[i].currentPrice = call.positions[i].currentPrice
              /\ result[i].hasYesterdayData
                    = (PreviousPrices(call.positions[i].ticker) # {})
              /\ PreviousPrices(call.positions[i].ticker) = {} =>
                    /\ result[i].dailyChange = 0
                    /\ result[i].dailyChangePercent = IntNum(0)

\* Daily changes of a list in which one ticker was held yesterday and one was not,
\* or whose only ticker was not held yesterday while another one was.
C8_Witness ==
    /\ call.op = "calculateDailyChanges"
    /\ PrecedingDayKeys # {}
    /\ \E i \in DOMAIN call.positions : PreviousPrices(call.positions[i].ticker) = {}
    /\ \/ \E i \in DOMAIN call.positions : PreviousPrices(call.positions[i].ticker) # {}
       \/ \E t \in Tickers \ TickersOf(call.positions) : PreviousPrices(t) # {}
    /\ \E t \in Tickers : \E prev \in PreviousPrices(t) : prev > 0

\* The keys of the most recent `days` stored days, and the oldest and the newest
\* of them.
WindowKeys(days) ==
    {k \in DOMAIN snapshots :
        Cardinality({o \in DOMAIN snapshots : DayOfKey(o) > DayOfKey(k)}) < days}

OldestOf(keys) == CHOOSE k \in keys : \A o \in keys : DayOfKey(k) <= DayOfKey(o)
NewestOf(keys) == CHOOSE k \in keys : \A o \in keys : DayOfKey(k) >= DayOfKey(o)

\* The tickers of the results of a trend detection.
ResultsFor(trends, ticker) == {i \in DOMAIN trends : trends[i].ticker = ticker}

C10_TooFewDays ==
    (call.op = "detectDowntrends" /\ Cardinality(DOMAIN snapshots) < 2) =>
        result = <<>>

\* A detection with threshold 0 over the whole of a one-day series that holds a
\* ticker at a positive price.
C10_Witness ==
    /\ call.op = "detectDowntrends"
    /\ call.threshold = 0
    /\ call.days >= 2
    /\ Cardinality(DOMAIN snapshots) = 1
    /\ \E k \in DOMAIN snapshots, t \in Tickers :
          \E price \in PricesIn(snapshots[k].positions, t) : price > 0
    /\ result = <<>>

\* min(a, b)
Min(a, b) == IF a <= b THEN a ELSE b

(* C11: window selection.  detectDowntrends(days, ...) uses the stored day *)
(* keys in ascending order, tail-limited to the most recent                *)
(* min(days, number of stored days) keys: every result's `days` field is   *)
(* that number and never more than the requested `days`, its start price   *)
(* is from the oldest and its end price from the newest snapshot of that   *)
(* window, and a window of fewer than 2 keys gives no result.              *)
C11_WindowSelection ==
    call.op = "detectDowntrends" =>
        LET size   == Min(call.days, Cardinality(DOMAIN snapshots))
            window == WindowKeys(size)
        IN  /\ \A i \in DOMAIN result :
                  /\ result[i].days = size
                  /\ result[i].days <= call.days
            /\ size < 2 => result = <<>>
            /\ size >= 2 =>
                  \A i \in DOMAIN result :
                      /\ result[i].startPrice
                            \in PricesIn(snapshots[OldestOf(window)].positions,
                                         result[i].ticker)
                      /\ result[i].endPrice
                            \in PricesIn(snapshots[NewestOf(window)].positions,
                                         result[i].ticker)

\* The place of a ticker in the lexicographic order of the tickers.
TickerRank(ticker) == IF ticker = "AAPL_US_EQ" THEN 1 ELSE 2

(* C12: trend output ordering is deterministic.  The results of            *)
(* detectDowntrends are in ascending order of changePercent (worst first), *)
(* and results of equal changePercent are in the lexicographic order of    *)
(* their tickers, whatever the order of the positions in the snapshots.    *)
C12_DeterministicOrder ==
    call.op = "detectDowntrends" =>
        \A i, j \in DOMAIN result :
            i < j =>
                /\ NumLeq(result[i].changePercent, result[j].changePercent)
                /\ result[i].changePercent = result[j].changePercent =>
                      TickerRank(result[i].ticker) < TickerRank(result[j].ticker)

-----------------------------------------------------------------------------
(* The operations that reset and that check, for the properties.           *)

ResetOps == {"clearTodayAlerts", "clearAllAlerts"}
CheckOps == {"checkAlerts", "checkDowntrendAlerts"}

(* C13: per-key alert state is irreversible without a reset.  In every     *)
(* step that is not clearTodayAlerts or clearAllAlerts (a checkAlerts or   *)
(* checkDowntrendAlerts call, a change of day, any other operation) every  *)
(* key that was in shownAlerts is still in it: the set only grows.         *)
C13_ShownOnlyGrows ==
    [][ call'.op \notin ResetOps => shownAlerts \subseteq shownAlerts' ]_vars

\* A trend check on day D+1 that marked a ticker of which the downtrend key and a
\* loss key of day D are still in the set.
C13_Witness ==
    /\ call.op = "checkDowntrendAlerts"
    /\ \E i \in DOMAIN result :
          /\ <<result[i].ticker, "downtrend", YesterdayKey>> \in shownAlerts
          /\ <<result[i].ticker, "downtrend", TodayKey>> \in shownAlerts
    /\ \E key \in shownAlerts : key[2] = "loss" /\ key[3] = YesterdayKey

(* C14: trend alerts are deduplicated by day under the key (ticker,        *)
(* "downtrend", today).  In every checkDowntrendAlerts call each ticker of *)
(* the trend list gives exactly one downtrend event if its key of today    *)
(* was not yet shown and none if it was, and the key is shown afterwards;  *)
(* every key the call adds is a downtrend key of today with one event.  So *)
(* with no reset a ticker that stays in the list emits one trend alert on  *)
(* the first check of a day, none on the later checks of that day, and one *)
(* again on the next day.                                                  *)
C14_TrendDedupByDay ==
    [][ call'.op = "checkDowntrendAlerts" =>
            /\ \A i \in DOMAIN call'.trends :
                  LET key == <<call'.trends[i].ticker, "downtrend", TodayKey>>
                  IN  /\ EventsFor(result', call'.trends[i].ticker, "downtrend") =
                            (IF key \in shownAlerts THEN 0 ELSE 1)
                      /\ key \in shownAlerts'
            /\ \A key \in shownAlerts' \ shownAlerts :
                  /\ key[2] = "downtrend"
                  /\ key[3] = TodayKey
                  /\ EventsFor(result', key[1], "downtrend") = 1
            /\ Len(result') = Cardinality(shownAlerts' \ shownAlerts)
      ]_vars

\* On day D+1 a trend check of two tickers emitted one event, for the ticker that
\* was alerted on day D and not yet on day D+1; the other was already alerted on
\* day D+1.
C14_Witness ==
    /\ call.op = "checkDowntrendAlerts"
    /\ Len(call.trends) = 2
    /\ Len(result) = 1
    /\ <<result[1].ticker, "downtrend", YesterdayKey>> \in shownAlerts
    /\ \A i \in DOMAIN call.trends :
          <<call.trends[i].ticker, "downtrend", TodayKey>> \in shownAlerts

(* C15: reset semantics.  clearTodayAlerts removes exactly the keys whose  *)
(* day is today and leaves the keys of every other day in the set;         *)
(* clearAllAlerts leaves the set empty; and in the check that follows      *)
(* either reset, every breach (daily loss, daily gain or downtrend) whose  *)
(* key of today was in the set before the reset emits exactly one event.   *)
C15_ResetSemantics ==
    [][ /\ call'.op = "clearTodayAlerts" =>
              /\ shownAlerts' = {key \in shownAlerts : DayOfKey(key[3]) # Today}
              /\ \A key \in shownAlerts : DayOfKey(key[3]) # Today => key \in shownAlerts'
        /\ call'.op = "clearAllAlerts" => shownAlerts' = {}
        /\ (call.op \in ResetOps /\ call'.op = "checkAlerts") =>
              \A i \in DOMAIN call'.positions :
                  LET p == call'.positions[i]
                  IN  /\ (/\ BreachesLoss(p, dailyLossThreshold)
                          /\ <<p.ticker, "loss", TodayKey>> \in call.before) =>
                             EventsFor(result', p.ticker, "daily_loss") = 1
                      /\ (/\ BreachesGain(p, dailyGainThreshold)
                          /\ <<p.ticker, "gain", TodayKey>> \in call.before) =>
                             EventsFor(result', p.ticker, "daily_gain") = 1
        /\ (call.op \in ResetOps /\ call'.op = "checkDowntrendAlerts") =>
              \A i \in DOMAIN call'.trends :
                  <<call'.trends[i].ticker, "downtrend", TodayKey>> \in call.before =>
                      EventsFor(result', call'.trends[i].ticker, "downtrend") = 1
      ]_vars

\* A clearTodayAlerts on day D+1 that removed a loss key and a downtrend key of
\* day D+1 and left a key of day D in the set.
C15_Witness ==
    /\ call.op = "clearTodayAlerts"
    /\ \E key \in call.before : key[2] = "loss" /\ key[3] = TodayKey
    /\ \E key \in call.before : key[2] = "downtrend" /\ key[3] = TodayKey
    /\ \E key \in call.before : key[3] = YesterdayKey
    /\ shownAlerts = {key \in call.before : key[3] = YesterdayKey}

\* The dedup key of an alert event that a check returned on the day of the clock.
KindOfType(type) ==
    CASE type = "daily_loss" -> "loss"
      [] type = "daily_gain" -> "gain"
      [] OTHER -> type

KeyOfEvent(event) == <<event.ticker, KindOfType(event.type), TodayKey>>

\* Each returned event has its own key, and the keys of the returned events are
\* exactly the keys the call added.
EventsMatchNewKeys(events, before, after) ==
    /\ \A i, j \in DOMAIN events : KeyOfEvent(events[i]) = KeyOfEvent(events[j]) => i = j
    /\ {KeyOfEvent(events[i]) : i \in DOMAIN events} = after \ before

C17_SinkFailureIsolated ==
    [][ (call'.op = "checkAlerts" /\ "sinkFailedAt" \in DOMAIN call') =>
            \A i \in DOMAIN call'.positions :
                LET p == call'.positions[i]
                IN  /\ (/\ BreachesLoss(p, dailyLossThreshold)
                        /\ <<p.ticker, "loss", TodayKey>> \notin shownAlerts) =>
                           EventsFor(result', p.ticker, "daily_loss") = 1
                    /\ (/\ BreachesGain(p, dailyGainThreshold)
                        /\ <<p.ticker, "gain", TodayKey>> \notin shownAlerts) =>
                           EventsFor(result', p.ticker, "daily_gain") = 1
      ]_vars

(* C19: save is all-or-nothing.  After every saveSnapshot step, also one   *)
(* in which a store write fails, either today's snapshot, lastPositions    *)
(* and lastFetchTime are all those of this save, or snapshots,             *)
(* lastPositions and lastFetchTime are all as they were before it.         *)
C19_SaveAllOrNothing ==
    [][ call'.op = "saveSnapshot" =>
            \/ /\ TodayKey \in DOMAIN snapshots'
               /\ snapshots'[TodayKey] = [positions |-> call'.positions, timestamp |-> now]
               /\ lastPositions' = call'.positions
               /\ lastFetchTime' = Some(now)
            \/ /\ snapshots' = snapshots
               /\ lastPositions' = lastPositions
               /\ lastFetchTime' = lastFetchTime
      ]_vars

-----------------------------------------------------------------------------
(* Refresh cycles, for the properties.                                     *)

\* A refresh cycle whose positions or cash request failed.
FetchFailed(c) ==
    /\ c.op = "refreshData"
    /\ IsNull(c.fetched.positions) \/ IsNull(c.fetched.cash)

\* A refresh cycle that got positions and cash and whose getInstruments failed.
MetadataFailed(c) ==
    /\ c.op = "refreshData"
    /\ ~IsNull(c.fetched.positions)
    /\ ~IsNull(c.fetched.cash)
    /\ \E i \in DOMAIN c.requests : c.requests[i] = "instruments"
    /\ IsNull(c.fetched.instruments)

(* C18: SourceUnavailable.  In a refresh cycle whose positions or cash     *)
(* request fails, nothing is persisted (snapshots, lastPositions,          *)
(* lastFetchTime, lastCash and the instruments cache are unchanged), the   *)
(* alert dedup set is unchanged, the message sent to the renderer is an    *)
(* ERROR, the polling timer stays set, and the cycle after it asks for the *)
(* positions again.                                                        *)
C18_SourceUnavailable ==
    [][ /\ FetchFailed(call') =>
              /\ UNCHANGED <<snapshots, lastPositions, lastFetchTime, lastCash,
                             instruments, instrumentsCacheTime>>
              /\ shownAlerts' = shownAlerts
              /\ ~IsNull(sent')
              /\ ValueOf(sent').channel = "error"
              /\ pollingInterval'
        /\ (FetchFailed(call) /\ call'.op = "refreshData") =>
              call'.requests[1] = "positions"
      ]_vars

\* A cycle whose cash request failed after the positions had arrived with other
\* prices than those stored today, in a state with cash, snapshots and alert
\* keys of earlier cycles.
C18_Witness ==
    /\ FetchFailed(call)
    /\ ~IsNull(call.fetched.positions)
    /\ lastPositions # <<>>
    /\ ValueOf(call.fetched.positions) # lastPositions
    /\ TodayKey \in DOMAIN snapshots
    /\ lastCash = Some(Cash)
    /\ shownAlerts # {}
    /\ ValueOf(sent).channel = "error"
    /\ pollingInterval

(* C20: a metadata fetch failure degrades gracefully.  In a refresh cycle  *)
(* that got positions and cash and whose getInstruments request fails, a   *)
(* POSITIONS_UPDATE (not an ERROR) is sent with the fetched positions in   *)
(* order, each with companyName and instrumentCurrency null; the snapshot  *)
(* of the fetched positions is saved under today; and the alerts are       *)
(* evaluated: every delivered position that breaches a threshold has its   *)
(* key of today in shownAlerts, with one event in the message if the key   *)
(* was not there before.                                                   *)
C20_MetadataFailureDegrades ==
    [][ MetadataFailed(call') =>
            LET message   == ValueOf(sent')
                positions == ValueOf(call'.fetched.positions)
            IN  /\ message.channel = "positions-update"
                /\ Len(message.positions) = Len(positions)
                /\ \A i \in DOMAIN positions :
                      /\ message.positions[i].ticker = positions[i].ticker
                      /\ message.positions[i].currentPrice = positions[i].currentPrice
                      /\ message.positions[i].companyName = Null
                      /\ message.positions[i].instrumentCurrency = Null
                /\ TodayKey \in DOMAIN snapshots'
                /\ snapshots'[TodayKey] = [positions |-> positions, timestamp |-> now]
                /\ lastPositions' = positions
                /\ lastFetchTime' = Some(now)
                /\ \A i \in DOMAIN message.positions :
                      LET p == message.positions[i]
                      IN  /\ BreachesLoss(p, dailyLossThreshold) =>
                                /\ <<p.ticker, "loss", TodayKey>> \in shownAlerts'
                                /\ <<p.ticker, "loss", TodayKey>> \notin shownAlerts =>
                                      EventsFor(message.alerts, p.ticker, "daily_loss") = 1
                          /\ BreachesGain(p, dailyGainThreshold) =>
                                /\ <<p.ticker, "gain", TodayKey>> \in shownAlerts'
                                /\ <<p.ticker, "gain", TodayKey>> \notin shownAlerts =>
                                      EventsFor(message.alerts, p.ticker, "daily_gain") = 1
      ]_vars

\* A cycle whose getInstruments failed and that delivered a ticker the
\* instruments list knows, 15 per cent down on yesterday, with its loss alert.
C20_Witness ==
    /\ MetadataFailed(call)
    /\ ValueOf(sent).channel = "positions-update"
    /\ \E i \in DOMAIN ValueOf(sent).positions :
          LET p == ValueOf(sent).positions[i]
          IN  /\ p.ticker \in {InstrumentsList[j].ticker : j \in DOMAIN InstrumentsList}
              /\ p.companyName = Null
              /\ p.dailyChangePercent = IntNum(-15)
              /\ EventsFor(ValueOf(sent).alerts, p.ticker, "daily_loss") = 1
    /\ \E i \in DOMAIN ValueOf(sent).downtrends : ValueOf(sent).downtrends[i].days = 2
    /\ instrumentsMap = Some(EmptyMap)

-----------------------------------------------------------------------------
(* The instruments metadata in the refresh cycle.                          *)

\* How often a refresh cycle asked the API for the given thing.
RequestsOf(c, what) == Cardinality({i \in DOMAIN c.requests : c.requests[i] = what})

\* A refresh cycle that got positions and cash.
Delivered(c) ==
    /\ c.op = "refreshData"
    /\ ~FetchFailed(c)

\* The cache on disk is populated and younger than 24 hours.
CacheYoungerThanDay ==
    /\ ~IsNull(instruments)
    /\ ~IsNull(instrumentsCacheTime)
    /\ now - ValueOf(instrumentsCacheTime) < MinutesPerDay

(* C21: metadata fetch retry policy.  No refresh cycle asks for the        *)
(* instruments more than once; a cycle whose getInstruments request fails  *)
(* leaves the cache empty (an empty map in memory, the disk cache as it    *)
(* was); and the cycle after it that gets positions and cash asks for the  *)
(* instruments again.                                                      *)
C21_MetadataRetry ==
    [][ /\ call'.op = "refreshData" => RequestsOf(call', "instruments") <= 1
        /\ MetadataFailed(call') =>
              /\ instrumentsMap' = Some(EmptyMap)
              /\ UNCHANGED <<instruments, instrumentsCacheTime>>
        /\ (MetadataFailed(call) /\ Delivered(call')) =>
              RequestsOf(call', "instruments") = 1
      ]_vars

(* C22: metadata TTL policy.  A refresh cycle that gets positions and cash *)
(* while the cache is valid (populated and younger than 24 hours) does not *)
(* ask for the instruments; a cycle that finds the cache stale or missing  *)
(* asks for them once and, when the answer arrives, replaces the map in    *)
(* use and the cache on disk by the whole answer, stamped with the time of *)
(* the cycle.                                                              *)
C22_TtlPolicy ==
    [][ Delivered(call') =>
          IF CacheYoungerThanDay
          THEN RequestsOf(call', "instruments") = 0
          ELSE /\ RequestsOf(call', "instruments") = 1
               /\ ~IsNull(call'.fetched.instruments) =>
                     LET whole == InstrumentsMapOf(ValueOf(call'.fetched.instruments))
                     IN  /\ instrumentsMap' = Some(whole)
                         /\ instruments' = Some(whole)
                         /\ instrumentsCacheTime' = Some(now)
      ]_vars

(* C23: the metadata cache is replaced atomically and wholesale.  Every    *)
(* saveInstruments(newSet), one of whose writes may fail, either leaves    *)
(* the persisted entries exactly newSet with instrumentsCacheTime the time *)
(* of the call, or leaves both as they were: entries and time always       *)
(* belong to the same replace.                                             *)
C23_AtomicReplace ==
    [][ call'.op = "saveInstruments" =>
          \/ /\ instruments' = Some(call'.map)
             /\ instrumentsCacheTime' = Some(now)
          \/ UNCHANGED <<instruments, instrumentsCacheTime>>
      ]_vars

(* C24: isInstrumentsCacheValid returns true if and only if the cache has  *)
(* been populated and is strictly less than 24 hours old: false before any *)
(* saveInstruments, false at exactly 24 hours.                             *)
C24_CacheValidity ==
    call.op = "isInstrumentsCacheValid" =>
        (result <=> CacheYoungerThanDay)

\* The query answers false on a populated cache of exactly 24 hours.
C24_Witness ==
    /\ call.op = "isInstrumentsCacheValid"
    /\ result = FALSE
    /\ ~IsNull(instruments)
    /\ now - ValueOf(instrumentsCacheTime) = MinutesPerDay

\* The time of the latest save the snapshots record.
LatestSaveTime ==
    LET times == {snapshots[k].timestamp : k \in DOMAIN snapshots}
    IN  CHOOSE t \in times : \A other \in times : other <= t

\* The age hasFreshData was asked for.
MaxAgeOf(maxAgeMinutes) ==
    IF maxAgeMinutes = JsUndefined THEN DefaultMaxAgeMinutes ELSE maxAgeMinutes.v

(* C25: freshness.  hasFreshData(maxAgeMinutes) is false when no snapshot  *)
(* has been saved; otherwise it is true exactly when the time since the    *)
(* latest saveSnapshot is strictly less than maxAgeMinutes.                *)
C25_Freshness ==
    call.op = "hasFreshData" =>
        (result <=> /\ DOMAIN snapshots # {}
                    /\ now - LatestSaveTime < MaxAgeOf(call.maxAgeMinutes))

\* Fresh within a day, half a day after the second of two saves on two days.
C25_Witness ==
    /\ call.op = "hasFreshData"
    /\ result = TRUE
    /\ call.maxAgeMinutes = JsNum(MinutesPerDay)
    /\ Cardinality(DOMAIN snapshots) = 2
    /\ now - LatestSaveTime = 12 * 60

(* C26: a missing or corrupt persisted record is never fatal.  When        *)
(* initialize finds the file of the store missing, not JSON or unreadable, *)
(* the application runs afterwards, with an empty snapshot series and the  *)
(* polling timer set.                                                      *)
C26_BadStoreNotFatal ==
    [][ (call'.op = "initialize" /\ call'.storeFile # "valid") =>
            /\ appState' = "running"
            /\ snapshots' = <<>>
            /\ pollingInterval'
      ]_vars

(* C27: refresh cycles do not overlap.  At most one invocation of          *)
(* refreshData is between its start and its end at any time.               *)
C27_NoOverlap == Len(inFlight) <= 1

\* constants.js: the endpoints listed.
ReadEndpoints == {ApiEndpoints[name] : name \in DOMAIN ApiEndpoints}

(* C28: read-only towards the brokerage.  Every HTTP request the           *)
(* Trading212Client has issued, in any sequence of its methods, is a GET   *)
(* on one of the endpoints listed.                                         *)
C28_ReadOnly ==
    \A i \in DOMAIN http :
        /\ http[i].method = "GET"
        /\ http[i].endpoint \in ReadEndpoints

\* The summary's three requests and the dividends with the default limit.
C28_Witness ==
    /\ call.op = "getFullSummary"
    /\ \E i \in DOMAIN http :
          /\ http[i].endpoint = ApiEndpoints.DIVIDENDS
          /\ http[i].query = <<"limit", DefaultDividendsLimit>>
    /\ \E i \in DOMAIN http : http[i].endpoint = ApiEndpoints.ACCOUNT_CASH

\* The window of the given number of days: the days, oldest first, each with
\* its positions.
WindowOf(snaps, days) ==
    LET snapshotDates == SnapshotDates(snaps, days)
    IN  [i \in DOMAIN snapshotDates |->
            [date |-> snapshotDates[i], positions |-> snaps[snapshotDates[i]].positions]]

-----------------------------------------------------------------------------
\* The place of a call in the calls of a cycle.
IndexOf(steps, name) == CHOOSE i \in DOMAIN steps : steps[i] = name

Precedes(steps, first, second) ==
    /\ \E i \in DOMAIN steps : steps[i] = first
    /\ \E i \in DOMAIN steps : steps[i] = second
    /\ IndexOf(steps, first) < IndexOf(steps, second)

NoteTypes(notes) == [i \in DOMAIN notes |-> notes[i].title[1]]

-----------------------------------------------------------------------------
DailyKinds == {"loss", "gain"}
DailyTypes == {"daily_loss", "daily_gain"}

(* C32: gaps suppress daily alerts.  A refresh cycle on a day whose        *)
(* previous calendar day has no snapshot emits no daily_loss or daily_gain *)
(* alert, shows no such notification and adds no loss or gain key to       *)
(* shownAlerts, whatever older snapshots hold; every position it sends has *)
(* hasYesterdayData false and zero daily change.                           *)
C32_GapsSuppressDailyAlerts ==
    [][ (call'.op = "refreshData" /\ YesterdayKey \notin DOMAIN snapshots) =>
            /\ \A k \in shownAlerts' \ shownAlerts : k[2] \notin DailyKinds
            /\ \A i \in DOMAIN notifications' :
                   NoteTypes(notifications')[i] \notin DailyTypes
            /\ Delivered(call') =>
                   /\ ValueOf(sent').alerts = <<>>
                   /\ \A i \in DOMAIN ValueOf(sent').positions :
                          /\ ~ValueOf(sent').positions[i].hasYesterdayData
                          /\ ValueOf(sent').positions[i].dailyChange = 0
      ]_vars

\* A cycle completed on a day after a missed day: the newest older snapshot, two
\* days back, holds a price the fetched one falls 15% below, and no alert came.
C32_Witness ==
    /\ Delivered(call)
    /\ YesterdayKey \notin DOMAIN snapshots
    /\ CivilFromDays(Today - 2) \in DOMAIN snapshots
    /\ \E i \in DOMAIN snapshots[TodayKey].positions :
       \E j \in DOMAIN snapshots[CivilFromDays(Today - 2)].positions :
          /\ snapshots[TodayKey].positions[i].ticker =
                 snapshots[CivilFromDays(Today - 2)].positions[j].ticker
          /\ snapshots[TodayKey].positions[i].currentPrice = 85
          /\ snapshots[CivilFromDays(Today - 2)].positions[j].currentPrice = 100
    /\ ValueOf(sent).alerts = <<>>

-----------------------------------------------------------------------------
\* The operations that check the daily alerts and send the positions.
LoadOps == {"refreshData", "requestPositions", "loadFromCache"}

PositionsSent == ~IsNull(sent) /\ ValueOf(sent).channel = "positions-update"

(* C33: the dedup set lives as long as the process.  A relaunch leaves the *)
(* store as it is and starts with an empty shownAlerts, so nothing of it   *)
(* comes back from the disk; and the first operation after a relaunch that *)
(* sends positions emits exactly one alert for every position in breach of *)
(* a threshold, whether or not the process before had shown its key.       *)
C33_DedupDiesWithProcess ==
    [][ /\ call'.op = "relaunch" =>
              /\ shownAlerts' = {}
              /\ UNCHANGED <<storeVars, cacheVars>>
        /\ (call.op = "relaunch" /\ call'.op \in LoadOps /\ PositionsSent') =>
              /\ call'.forgotten = call.before
              /\ \A i \in DOMAIN ValueOf(sent').positions :
                   LET p == ValueOf(sent').positions[i]
                   IN  /\ BreachesLoss(p, dailyLossThreshold) =>
                             /\ EventsFor(ValueOf(sent').alerts, p.ticker,
                                          "daily_loss") = 1
                             /\ <<p.ticker, "loss", TodayKey>> \in shownAlerts'
                       /\ BreachesGain(p, dailyGainThreshold) =>
                             /\ EventsFor(ValueOf(sent').alerts, p.ticker,
                                          "daily_gain") = 1
                             /\ <<p.ticker, "gain", TodayKey>> \in shownAlerts'
      ]_vars

\* The first load after a relaunch alerts again of a loss whose key the process
\* before had shown on the same day.
C33_Witness ==
    /\ call.op \in LoadOps
    /\ PositionsSent
    /\ \E i \in DOMAIN ValueOf(sent).alerts :
          /\ ValueOf(sent).alerts[i].type = "daily_loss"
          /\ KeyOfEvent(ValueOf(sent).alerts[i]) \in call.forgotten
    /\ \E i \in DOMAIN notifications : NoteTypes(notifications)[i] = "daily_loss"

-----------------------------------------------------------------------------
\* What the cache has to hold to be served, read off the store.
FetchedWithin(minutes) ==
    ~IsNull(lastFetchTime) /\ now - ValueOf(lastFetchTime) < minutes
CacheServable ==
    /\ FetchedWithin(DefaultMaxAgeMinutes)
    /\ TodayKey \in DOMAIN snapshots
    /\ ~IsNull(lastCash)

BareTickersAndPrices(positions) ==
    [i \in DOMAIN positions |->
        [ticker |-> positions[i].ticker, currentPrice |-> positions[i].currentPrice]]

(* C34: the initial-load policy.  A REQUEST_POSITIONS is answered from the *)
(* cache exactly when lastFetchTime is less than 30 minutes old and both   *)
(* today's snapshot and lastCash are stored: then one message goes out,    *)
(* flagged fromCache, with the positions of today's snapshot, lastCash and *)
(* lastFetchTime as its timestamp, and refreshData does not run.  In every *)
(* other case refreshData runs exactly once and sends the one message (an  *)
(* update not flagged fromCache, or an error).                             *)
C34_InitialLoadPolicy ==
    [][ call'.op = "requestPositions" =>
            /\ call'.cacheLoaded <=> CacheServable
            /\ call'.refreshes = (IF CacheServable THEN 0 ELSE 1)
            /\ call'.messages = 1
            /\ ~IsNull(sent')
            /\ CacheServable =>
                  /\ ValueOf(sent').channel = "positions-update"
                  /\ ValueOf(sent').fromCache
                  /\ BareTickersAndPrices(ValueOf(sent').positions) =
                         BareTickersAndPrices(snapshots[TodayKey].positions)
                  /\ ValueOf(sent').cash = ValueOf(lastCash)
                  /\ ValueOf(sent').lastUpdate = ValueOf(lastFetchTime)
                  /\ call'.requests = <<>>
            /\ ~CacheServable =>
                  /\ call'.requests # <<>>
                  /\ call'.requests[1] = "positions"
                  /\ ValueOf(sent').channel = "positions-update" =>
                        /\ ~ValueOf(sent').fromCache
                        /\ ValueOf(sent').lastUpdate = now
      ]_vars

\* A request answered from a cache twenty minutes old, on the day of its
\* snapshot, with the snapshot of the day before to compare with.
C34_Witness ==
    /\ call.op = "requestPositions"
    /\ call.cacheLoaded
    /\ call.refreshes = 0
    /\ PositionsSent
    /\ ValueOf(sent).fromCache
    /\ now - ValueOf(sent).lastUpdate = 20
    /\ ValueOf(sent).positions # <<>>
    /\ \E i \in DOMAIN ValueOf(sent).positions :
          ValueOf(sent).positions[i].hasYesterdayData

-----------------------------------------------------------------------------
(* C39: the frame of loadFromCache.  A loadFromCache call, whatever it     *)
(* returns, issues no API request and leaves the whole store (snapshots,   *)
(* lastPositions, lastFetchTime, lastCash, instruments and their cache     *)
(* time) and the thresholds as they were.  It changes at most shownAlerts, *)
(* which only grows, by today's loss and gain keys, and instrumentsMap,    *)
(* which goes only from null to the map of the disk cache; a call that     *)
(* returns false changes neither.                                          *)
C39_LoadFromCacheFrame ==
    [][ call'.op = "loadFromCache" =>
            /\ UNCHANGED <<storeVars, cacheVars, http, inFlight, now,
                           dailyLossThreshold, dailyGainThreshold>>
            /\ call'.requests = <<>>
            /\ shownAlerts \subseteq shownAlerts'
            /\ \A k \in shownAlerts' \ shownAlerts :
                   k[2] \in DailyKinds /\ k[3] = TodayKey
            /\ instrumentsMap' # instrumentsMap =>
                   /\ IsNull(instrumentsMap)
                   /\ instrumentsMap' = instruments
            /\ result' = FALSE => UNCHANGED <<shownAlerts, instrumentsMap>>
      ]_vars

\* A loadFromCache that returned true, alerted of a loss and took the names of
\* the instruments from the disk cache.
C39_Witness ==
    /\ call.op = "loadFromCache"
    /\ result = TRUE
    /\ PositionsSent
    /\ ValueOf(sent).alerts # <<>>
    /\ shownAlerts # {}
    /\ ~IsNull(instrumentsMap)
    /\ \E i \in DOMAIN ValueOf(sent).positions :
          ~IsNull(ValueOf(sent).positions[i].companyName)

-----------------------------------------------------------------------------
(* C38: the frame of saveSnapshot.  A saveSnapshot keeps every snapshot    *)
(* stored under a day other than today that is not older than the 90-day   *)
(* cutoff exactly as it was, stores nothing under any key but today's, and *)
(* removes only keys older than the cutoff; lastCash, the instruments      *)
(* cache and the in-memory state of main.js and of the AlertManager are    *)
(* unchanged.                                                              *)
C38_SaveFrame ==
    [][ call'.op = "saveSnapshot" =>
            /\ \A k \in DOMAIN snapshots :
                   (k # TodayKey /\ DayOfKey(k) >= Today - RetentionDays) =>
                       /\ k \in DOMAIN snapshots'
                       /\ snapshots'[k] = snapshots[k]
            /\ \A k \in DOMAIN snapshots' :
                   k # TodayKey => (k \in DOMAIN snapshots /\ snapshots'[k] = snapshots[k])
            /\ \A k \in DOMAIN snapshots \ DOMAIN snapshots' :
                   DayOfKey(k) < Today - RetentionDays
            /\ UNCHANGED <<cacheVars, instrumentsMap, shownAlerts, now>>
      ]_vars

\* The first save of a day: it added today's key, removed a key past the cutoff
\* and kept the snapshot of the cutoff day itself as it was.
C38_Witness ==
    /\ call.op = "saveSnapshot"
    /\ TodayKey \notin DOMAIN call.before
    /\ TodayKey \in DOMAIN snapshots
    /\ \E k \in DOMAIN call.before : k \notin DOMAIN snapshots
    /\ \E k \in DOMAIN snapshots :
          /\ DayOfKey(k) = Today - RetentionDays
          /\ snapshots[k] = call.before[k]

-----------------------------------------------------------------------------
\* The steps in which an invocation of refreshData starts, and goes on.
StartOps == {"startRefresh", "requestRefresh"}

C36_DedupUnderInterleaving ==
    [][ /\ shownAlerts \subseteq shownAlerts'
        /\ call'.op \in StartOps => UNCHANGED <<shownAlerts, notifications>>
        /\ call'.op = "resumeRefresh" =>
              /\ Len(notifications') = Cardinality(shownAlerts' \ shownAlerts)
              /\ \A k \in shownAlerts' \ shownAlerts :
                     /\ k[3] = TodayKey
                     /\ Cardinality({i \in DOMAIN notifications' :
                            /\ KindOfType(notifications'[i].title[1]) = k[2]
                            /\ notifications'[i].title[2] = ExtractShortTicker(k[1])}) = 1
              /\ PositionsSent' =>
                     EventsMatchNewKeys(ValueOf(sent').alerts, shownAlerts,
                         {k \in shownAlerts' : k[2] \in DailyKinds})
              /\ ~PositionsSent' => shownAlerts' = shownAlerts
      ]_vars

\* Of two invocations in flight at once, the one that ended second sent a
\* position in breach of the loss threshold without an alert: the other had
\* marked its key.
C36_Witness ==
    /\ call.op = "resumeRefresh"
    /\ call.by = "manual"
    /\ call.others = 1
    /\ PositionsSent
    /\ ValueOf(sent).alerts = <<>>
    /\ notifications = <<>>
    /\ \E i \in DOMAIN ValueOf(sent).positions :
          /\ BreachesLoss(ValueOf(sent).positions[i], dailyLossThreshold)
          /\ <<ValueOf(sent).positions[i].ticker, "loss", TodayKey>> \in shownAlerts

-----------------------------------------------------------------------------
(* C35: the polling timer.  At most one interval timer is active, and one  *)
(* is exactly when pollingInterval holds it; after startPolling there is   *)
(* one, whether or not one ran before; after stopPolling and after         *)
(* window-all-closed there is none, and a stopPolling with no timer set    *)
(* changes nothing; and a timer-driven refreshData runs only in a state    *)
(* with an active timer, so none runs from a stopPolling to the next       *)
(* startPolling.                                                           *)
C35_OnePollingTimer ==
    [][ /\ timers' <= 1
        /\ pollingInterval' <=> timers' = 1
        /\ call'.op = "startPolling" => timers' = 1
        /\ call'.op \in {"stopPolling", "windowAllClosed"} =>
              /\ timers' = 0
              /\ ~pollingInterval'
        /\ (call'.op = "stopPolling" /\ ~pollingInterval) =>
              UNCHANGED <<pollingInterval, timers>>
        /\ call'.op = "refreshData" => (timers = 1 /\ pollingInterval)
        /\ (timers = 0 /\ timers' = 1) => call'.op = "startPolling"
      ]_vars

\* Polling started while it ran, was stopped, and was stopped once more: the
\* second stopPolling found no timer; the store holds the snapshot of a cycle.
C35_Witness ==
    /\ call.op = "stopPolling"
    /\ ~call.before.pollingInterval
    /\ call.before.timers = 0
    /\ timers = 0
    /\ appState = "running"
    /\ TodayKey \in DOMAIN snapshots
    /\ ~IsNull(sent)

====
